---- MODULE Spec2Model ----
(***************************************************************************)
(* A model of FinancialProcessor (table detection, account classification, *)
(* decimal aggregation, diagnostics, processFile).                         *)
(*                                                                         *)
(* Conventions                                                             *)
(*  - strings are TLA+ strings; Len, SubSeq and \o work on them in TLC.    *)
(*  - a confidence is an integer number of 1/300: 0.3 = 90, 0.7 = 210,     *)
(*    0.8 = 240, 1 = 300.  Every confidence the code computes is a         *)
(*    multiple of 1/300 (keyword lists have 2, 3 or 4 keywords; statement  *)
(*    keyword lists have 9 or 10), so the divisions below are exact.       *)
(*  - an amount is an integer number of hundredths (decimal.js sums are    *)
(*    exact on such values).                                               *)
(*  - a JS array that is reachable through two references is a heap cell:  *)
(*    the cell is named by the invocation whose `= []` created it.         *)
(*  - timestamps and the `details` argument of log() have no effect on    *)
(*    control flow and are left out of a log entry; the field `by` of a    *)
(*    log entry, an unmatched entry and a memory entry is a history field  *)
(*    naming the invocation that created it.                               *)
(***************************************************************************)
EXTENDS Integers, Sequences, FiniteSets, TLC

\* The number of processFile invocations of one behaviour.
MaxRuns == 2

---------------------------------------------------------------------------
(* String primitives of the JavaScript runtime.                            *)

Upper == "ABCDEFGHIJKLMNOPQRSTUVWXYZ"
Lower == "abcdefghijklmnopqrstuvwxyz"
Digits == "0123456789"

CharAt(s, i) == SubSeq(s, i, i)

\* The 1-based position of character c in s, 0 when absent.
IndexOf(s, c) ==
  IF \E i \in 1..Len(s) : CharAt(s, i) = c
    THEN CHOOSE i \in 1..Len(s) :
           CharAt(s, i) = c /\ \A j \in 1..(i - 1) : CharAt(s, j) # c
    ELSE 0

LowerChar(c) == IF IndexOf(Upper, c) > 0 THEN CharAt(Lower, IndexOf(Upper, c)) ELSE c

RECURSIVE toLowerCase(_)
toLowerCase(s) ==
  IF Len(s) = 0 THEN ""
  ELSE LowerChar(CharAt(s, 1)) \o toLowerCase(SubSeq(s, 2, Len(s)))

\* String.prototype.includes
includes(s, k) ==
  \/ Len(k) = 0
  \/ \E i \in 1..(Len(s) - Len(k) + 1) : SubSeq(s, i, i + Len(k) - 1) = k

\* String.prototype.startsWith
startsWith(s, p) ==
  \/ Len(p) = 0
  \/ Len(p) <= Len(s) /\ SubSeq(s, 1, Len(p)) = p

\* s.substring(0, n)
substring0(s, n) == IF Len(s) <= n THEN s ELSE SubSeq(s, 1, n)

\* s.split(' '): the pieces between single spaces, empty pieces kept.
RECURSIVE splitFrom(_, _, _)
splitFrom(s, i, cur) ==
  IF i > Len(s) THEN <<cur>>
  ELSE IF CharAt(s, i) = " " THEN <<cur>> \o splitFrom(s, i + 1, "")
  ELSE splitFrom(s, i + 1, cur \o CharAt(s, i))

split(s) == splitFrom(s, 1, "")

\* arr.join(sep)
RECURSIVE join(_, _)
join(arr, sep) ==
  IF Len(arr) = 0 THEN ""
  ELSE IF Len(arr) = 1 THEN arr[1]
  ELSE arr[1] \o sep \o join(Tail(arr), sep)

\* s.replace(/\s+/g, '')
RECURSIVE removeSpaces(_)
removeSpaces(s) ==
  IF Len(s) = 0 THEN ""
  ELSE (IF CharAt(s, 1) = " " THEN "" ELSE CharAt(s, 1))
         \o removeSpaces(SubSeq(s, 2, Len(s)))

\* Array.prototype.includes on a sequence
arrIncludes(arr, x) == \E i \in 1..Len(arr) : arr[i] = x

\* The decimal digits of a natural number.
RECURSIVE natToString(_)
natToString(n) ==
  IF n < 10 THEN CharAt(Digits, n + 1)
  ELSE natToString(n \div 10) \o CharAt(Digits, (n % 10) + 1)

\* String(x) of a number held in hundredths: 100000 is "1000", 500001 is
\* "5000.01", 1250 is "12.5".
numberToString(n) ==
  LET a == IF n < 0 THEN 0 - n ELSE n
      whole == a \div 100
      frac == a % 100
      digits == IF frac = 0 THEN natToString(whole)
                ELSE IF frac % 10 = 0
                  THEN natToString(whole) \o "." \o natToString(frac \div 10)
                ELSE natToString(whole) \o "." \o natToString(frac \div 10)
                       \o natToString(frac % 10)
  IN IF n < 0 THEN "-" \o digits ELSE digits

---------------------------------------------------------------------------
(* Confidences.                                                            *)

\* The fraction n/d as a number of 1/300.
Frac(n, d) == (n * 300) \div d

Min(a, b) == IF a <= b THEN a ELSE b

\* The float NaN (only a table confidence can be NaN).
NaN == 0 - 1
IsNaN(x) == x < 0

---------------------------------------------------------------------------
(* constants.ts: FINANCIAL_KEYWORDS.                                       *)

TRIAL_BALANCE ==
  << "trial balance", "tb", "trial", "balance",
     "account listing", "general ledger", "gl balance",
     "account balance", "ledger balance" >>

BALANCE_SHEET ==
  << "balance sheet", "statement of financial position", "financial position",
     "assets and liabilities", "net assets", "financial statement",
     "statement of position", "bs", "position statement" >>

INCOME_STATEMENT ==
  << "income statement", "profit and loss", "p&l",
     "statement of comprehensive income",
     "earnings statement", "operating statement", "statement of operations",
     "profit & loss", "income and expenditure", "revenue statement" >>

\* FINANCIAL_KEYWORDS[type] || []  (no list is keyed UNKNOWN)
KeywordsOfType(type) ==
  CASE type = "TRIAL_BALANCE" -> TRIAL_BALANCE
    [] type = "BALANCE_SHEET" -> BALANCE_SHEET
    [] type = "INCOME_STATEMENT" -> INCOME_STATEMENT
    [] OTHER -> <<>>

\* One value met by the three nested Object.entries walks of HIERARCHICAL,
\* in walk order.  `isArray` is Array.isArray of the value met at the third
\* level, `keywords` that array and `value` the value when it is a string.
Leaf(p, s, t, kws) ==
  [primary |-> p, secondary |-> s, tertiary |-> t, isArray |-> TRUE, keywords |-> kws,
   value |-> ""]

\* EQUITY has two levels only: the third walk runs over the indices of the
\* keyword array and meets the keyword strings themselves, which are not
\* arrays.
Scalar(p, s, t, string) ==
  [primary |-> p, secondary |-> s, tertiary |-> t, isArray |-> FALSE, keywords |-> <<>>,
   value |-> string]

HIERARCHICAL ==
  << Leaf("ASSETS", "CURRENT_ASSETS", "CASH",
          <<"cash", "bank", "money market", "petty cash">>),
     Leaf("ASSETS", "CURRENT_ASSETS", "RECEIVABLES",
          <<"accounts receivable", "trade debtors", "due from">>),
     Leaf("ASSETS", "CURRENT_ASSETS", "INVENTORY",
          <<"inventory", "stock", "goods", "merchandise">>),
     Leaf("ASSETS", "CURRENT_ASSETS", "PREPAYMENTS",
          <<"prepaid", "advance payment", "deposit">>),
     Leaf("ASSETS", "NON_CURRENT_ASSETS", "FIXED_ASSETS",
          <<"property", "plant", "equipment", "ppe">>),
     Leaf("ASSETS", "NON_CURRENT_ASSETS", "INVESTMENTS",
          <<"investment", "shares", "bonds", "securities">>),
     Leaf("ASSETS", "NON_CURRENT_ASSETS", "INTANGIBLES",
          <<"goodwill", "patent", "trademark", "license">>),
     Leaf("LIABILITIES", "CURRENT_LIABILITIES", "PAYABLES",
          <<"accounts payable", "trade creditors", "due to">>),
     Leaf("LIABILITIES", "CURRENT_LIABILITIES", "SHORT_TERM_LOANS",
          <<"short term loan", "overdraft", "current borrowing">>),
     Leaf("LIABILITIES", "CURRENT_LIABILITIES", "ACCRUALS",
          <<"accrued", "accrual", "provision">>),
     Leaf("LIABILITIES", "NON_CURRENT_LIABILITIES", "LONG_TERM_LOANS",
          <<"long term loan", "mortgage", "bond payable">>),
     Leaf("LIABILITIES", "NON_CURRENT_LIABILITIES", "DEFERRED_TAX",
          <<"deferred tax", "future tax">>),
     Scalar("EQUITY", "CAPITAL", "0", "share capital"),
     Scalar("EQUITY", "CAPITAL", "1", "common stock"),
     Scalar("EQUITY", "CAPITAL", "2", "issued capital"),
     Scalar("EQUITY", "RESERVES", "0", "reserve"),
     Scalar("EQUITY", "RESERVES", "1", "surplus"),
     Scalar("EQUITY", "RESERVES", "2", "accumulated"),
     Scalar("EQUITY", "RETAINED_EARNINGS", "0", "retained earning"),
     Scalar("EQUITY", "RETAINED_EARNINGS", "1", "accumulated profit"),
     Leaf("REVENUE", "OPERATING_REVENUE", "SALES",
          <<"sales revenue", "service revenue", "fee income">>),
     Leaf("REVENUE", "OPERATING_REVENUE", "COMMISSION",
          <<"commission earned", "brokerage">>),
     Leaf("REVENUE", "OTHER_REVENUE", "INTEREST",
          <<"interest income", "interest earned">>),
     Leaf("REVENUE", "OTHER_REVENUE", "DIVIDEND",
          <<"dividend income", "dividend received">>),
     Leaf("EXPENSES", "OPERATING_EXPENSES", "EMPLOYEE",
          <<"salary", "wage", "payroll", "employee benefit">>),
     Leaf("EXPENSES", "OPERATING_EXPENSES", "OFFICE",
          <<"rent", "utility", "insurance", "maintenance">>),
     Leaf("EXPENSES", "OPERATING_EXPENSES", "SELLING",
          <<"advertising", "marketing", "promotion">>),
     Leaf("EXPENSES", "FINANCIAL_EXPENSES", "INTEREST",
          <<"interest expense", "finance cost">>),
     Leaf("EXPENSES", "FINANCIAL_EXPENSES", "BANK_CHARGES",
          <<"bank charge", "bank fee">>) >>

---------------------------------------------------------------------------
(* The standard chart of accounts.                                         *)

Std(code, p, s, t) ==
  [code |-> code,
   classification |->
     [primary |-> p, secondary |-> s, tertiary |-> t, confidence |-> Frac(1, 1),
      reasoning |-> "Direct match with standard chart of accounts"]]

\* Object.keys / Object.entries order: the keys are integer-like, so the
\* order is ascending, which is also the order they are written in.
classificationMap ==
  << Std("1000", "Assets", "Current Assets", "Cash and Cash Equivalents"),
     Std("1100", "Assets", "Current Assets", "Accounts Receivable"),
     Std("1200", "Assets", "Current Assets", "Inventory"),
     Std("1500", "Assets", "Non-Current Assets", "Property, Plant and Equipment"),
     Std("2000", "Liabilities", "Current Liabilities", "Accounts Payable"),
     Std("2100", "Liabilities", "Current Liabilities", "Short-term Loans"),
     Std("2500", "Liabilities", "Non-Current Liabilities", "Long-term Loans"),
     Std("3000", "Equity", "Capital", "Share Capital"),
     Std("3100", "Equity", "Retained Earnings", "Accumulated Profits"),
     Std("4000", "Revenue", "Operating Revenue", "Sales Revenue"),
     Std("4100", "Revenue", "Other Revenue", "Interest Income"),
     Std("5000", "Expenses", "Operating Expenses", "Cost of Sales"),
     Std("5100", "Expenses", "Operating Expenses", "Employee Benefits"),
     Std("5200", "Expenses", "Operating Expenses", "Office Expenses") >>

\* classificationMap[code] is defined
inMap(code) == \E i \in 1..Len(classificationMap) : classificationMap[i].code = code

\* classificationMap[code]
mapGet(code) ==
  classificationMap[CHOOSE i \in 1..Len(classificationMap) :
                      classificationMap[i].code = code].classification

SIMILARITY_THRESHOLD == Frac(6, 10)
MIN_TABLE_ROWS == 2
MIN_FINANCIAL_KEYWORDS == 2

---------------------------------------------------------------------------
(* string-similarity: compareTwoStrings and findBestMatch (the Dice        *)
(* coefficient over character bigrams).  A rating is the fraction num/den. *)

bigrams(s) == [i \in 1..(Len(s) - 1) |-> SubSeq(s, i, i + 1)]

\* The sequence without its first occurrence of x.
RECURSIVE removeFirst(_, _)
removeFirst(arr, x) ==
  IF Len(arr) = 0 THEN <<>>
  ELSE IF arr[1] = x THEN Tail(arr)
  ELSE <<arr[1]>> \o removeFirst(Tail(arr), x)

\* The second loop of compareTwoStrings: every bigram of the second string
\* that is still available among the first string's bigrams uses one up.
RECURSIVE intersectionSize(_, _)
intersectionSize(avail, second) ==
  IF Len(second) = 0 THEN 0
  ELSE IF arrIncludes(avail, second[1])
    THEN 1 + intersectionSize(removeFirst(avail, second[1]), Tail(second))
  ELSE intersectionSize(avail, Tail(second))

compareTwoStrings(a, b) ==
  LET first == removeSpaces(a)
      second == removeSpaces(b)
  IN IF first = second THEN [num |-> 1, den |-> 1]
     ELSE IF Len(first) < 2 \/ Len(second) < 2 THEN [num |-> 0, den |-> 1]
     ELSE [num |-> 2 * intersectionSize(bigrams(first), bigrams(second)),
           den |-> Len(first) + Len(second) - 2]

ratingGreater(r, q) == r.num * q.den > q.num * r.den

\* findBestMatch(mainString, targets).bestMatch: the first target of the
\* highest rating.
RECURSIVE bestMatchFrom(_, _, _, _)
bestMatchFrom(mainString, targets, i, best) ==
  IF i > Len(targets) THEN best
  ELSE LET r == compareTwoStrings(mainString, targets[i])
       IN bestMatchFrom(mainString, targets, i + 1,
            IF ratingGreater(r, best.rating)
              THEN [target |-> targets[i], rating |-> r] ELSE best)

findBestMatch(mainString, targets) ==
  bestMatchFrom(mainString, targets, 2,
    [target |-> targets[1], rating |-> compareTwoStrings(mainString, targets[1])])

---------------------------------------------------------------------------
(* The worksheet: a grid of cells over the used range A1:<last cell>.      *)

Str(x) == [t |-> "s", s |-> x, n |-> 0]      \* a string cell
Num(k) == [t |-> "n", s |-> "", n |-> k]     \* a number cell, in hundredths
Nil == [t |-> "z", s |-> "", n |-> 0]        \* no cell at this address

Width(grid) == Len(grid[1])

\* utils.encode_cell for the 1-based row r and column c
encode_cell(r, c) == CharAt(Upper, c) \o natToString(r)

\* workbook['!ref'].split('!')[0]
sheetNameOf(grid) == "A1:" \o encode_cell(Len(grid), Width(grid))

\* String(value) of a cell's value
stringOf(cell) == IF cell.t = "n" THEN numberToString(cell.n) ELSE cell.s

\* JavaScript truthiness of a cell's value (undefined, '' and 0 are falsy)
truthy(cell) == (cell.t = "s" /\ cell.s # "") \/ (cell.t = "n" /\ cell.n # 0)

---------------------------------------------------------------------------
(* Inputs: the worksheets and label lists an invocation is given.          *)

Header4 == <<Str("AccountCode"), Str("AccountName"), Str("Debit"), Str("Credit")>>

\* Standard codes, balanced.
GridStandard ==
  << Header4,
     <<Str("1000"), Str("Cash"), Num(500000), Nil>>,
     <<Str("2000"), Str("Accounts Payable"), Nil, Num(500000)>> >>

\* No strategy matches the first row; the second shares the word "misc" with
\* it, and so does the third, whose code is a standard code.  5000.01
\* against 5000.00.
GridMisc ==
  << Header4,
     <<Str("9998"), Str("Misc Gains"), Nil, Num(500001)>>,
     <<Str("9999"), Str("Misc Losses"), Num(500000), Nil>>,
     <<Num(100000), Str("Misc Cash"), Nil, Nil>> >>

\* Codes that no standard code resembles and names that share no word: one
\* name for each of the substring checks of determineBasicCategory, one that
\* holds a keyword of EQUITY only, and one that holds none.  The last debit
\* is a negative number.
GridFallback ==
  << Header4,
     <<Str("9101"), Str("Sundry receivable"), Num(100), Nil>>,
     <<Str("9102"), Str("Trade payable"), Nil, Num(100)>>,
     <<Str("9103"), Str("Other income"), Nil, Num(100)>>,
     <<Str("9104"), Str("Cost centre"), Num(100), Nil>>,
     <<Str("9105"), Str("Owner capital"), Nil, Num(100)>>,
     <<Str("9106"), Str("General reserve"), Nil, Num(100)>>,
     <<Str("9107"), Str("Suspense"), Num(0 - 200), Nil>> >>

\* A data row, a total row that names a header keyword, a section heading,
\* a row of empty strings, a data row, and five total rows that name no
\* header keyword: four categories, two amounts of one category, none in
\* the order of the sort, the last without an amount.  Then a row whose code starts like the
\* standard code 2100 and resembles 1100 as much, with the name of the first
\* row, and a row whose name holds a keyword of two lists, the list of the
\* lower confidence first in the walk.
GridMixed ==
  << Header4,
     <<Str("1001"), Str("Petty Cash"), Num(100000), Nil>>,
     <<Nil, Str("Total Assets"), Num(100000), Nil>>,
     <<Nil, Str("Current Assets"), Nil, Nil>>,
     <<Str(""), Str(""), Str(""), Str("")>>,
     <<Str("9999"), Str("Miscellaneous Gains"), Nil, Num(100000)>>,
     <<Nil, Str("Grand Total"), Num(100000), Num(100000)>>,
     <<Nil, Str("Total Liability"), Nil, Num(30000)>>,
     <<Nil, Str("Total Asset"), Num(10000), Nil>>,
     <<Nil, Str("Total Fixed Asset"), Num(20000), Nil>>,
     <<Nil, Str("Subtotal Expense"), Nil, Nil>>,
     <<Str("2110"), Str("Petty Cash"), Nil, Nil>>,
     <<Str("9108"), Str("Bank overdraft"), Nil, Nil>> >>

\* The header row Account / Debit / Credit and two rows of numbers.
GridAccount ==
  << <<Str("Account"), Str("Debit"), Str("Credit")>>,
     <<Num(100000), Num(10000), Nil>>,
     <<Num(200000), Nil, Num(10000)>> >>

\* One row only: no region has two data rows.
GridOneRow == << <<Str("Account"), Str("Debit"), Str("Credit")>> >>

\* A header row and two rows of the range without a cell.
GridBlank ==
  << <<Str("Name"), Str("Amount")>>, <<Nil, Nil>>, <<Nil, Nil>> >>

\* A debit that is no number.
GridBadAmount ==
  << Header4,
     <<Str("9998"), Str("Misc Gains"), Str("n/a"), Nil>>,
     <<Str("1000"), Str("Cash"), Num(100), Nil>> >>

\* An account name that is a number cell.
GridNumericName ==
  << Header4,
     <<Str("7000"), Num(40100), Num(100), Nil>>,
     <<Str("1000"), Str("Cash"), Nil, Num(100)>> >>

\* A sheet of header-like rows above three rows of data.  Row 1 names the
\* columns and four keywords of a trial balance; row 2 holds keywords of a
\* balance sheet only, row 3 keywords of an income statement only; row 4
\* is 'assets' and 'liabilities', which hold no keyword; row 5 holds a
\* keyword of a trial balance and one of a balance sheet; row 6 holds two
\* texts without a keyword.
GridStatements ==
  << <<Str("Account"), Str("Trial Balance"), Str("GL Balance"), Str("Debit"),
       Str("Credit")>>,
     <<Str("Net Assets"), Str("Financial Position"), Nil, Nil, Nil>>,
     <<Str("Revenue Statement"), Str("P&L"), Nil, Nil, Nil>>,
     <<Str("Assets"), Str("Liabilities"), Nil, Nil, Nil>>,
     <<Str("Trial"), Str("Balance Sheet"), Nil, Nil, Nil>>,
     <<Str("Code"), Str("Name"), Nil, Nil, Nil>>,
     <<Num(100000), Nil, Nil, Num(100), Nil>>,
     <<Num(200000), Nil, Nil, Nil, Num(100)>>,
     <<Num(300000), Nil, Nil, Nil, Nil>> >>

\* A title and a line with the year above the header row.
GridTitled ==
  << <<Str("Ledger report"), Nil, Nil, Nil>>,
     <<Str("Year"), Num(202400), Nil, Nil>>,
     Header4,
     <<Str("1000"), Str("Cash"), Num(100), Nil>>,
     <<Str("2000"), Str("Accounts Payable"), Nil, Num(100)>> >>

\* jigsawLabels: `defined` is FALSE when the argument is left out.
Labels(list) == [defined |-> TRUE, list |-> list]
Label(text, type) == [text |-> text, confidence |-> Frac(9, 10), type |-> type]
NoLabelsArgument == [defined |-> FALSE, list |-> <<>>]
EmptyLabels == Labels(<<>>)
RequiredLabels ==
  Labels(<< Label("Account", "account_description"), Label("Debit", "debit"),
            Label("Credit", "credit") >>)
PartialLabels == Labels(<< Label("Debit", "debit"), Label("x", "unknown") >>)

Input(grid, labels) == [grid |-> grid, labels |-> labels]

Inputs ==
  { Input(GridStandard, EmptyLabels), Input(GridStandard, RequiredLabels),
    Input(GridStandard, NoLabelsArgument),
    Input(GridMisc, EmptyLabels), Input(GridFallback, PartialLabels),
    Input(GridMixed, EmptyLabels), Input(GridMixed, RequiredLabels),
    Input(GridAccount, EmptyLabels), Input(GridAccount, RequiredLabels),
    Input(GridOneRow, RequiredLabels), Input(GridBlank, EmptyLabels),
    Input(GridBadAmount, EmptyLabels), Input(GridNumericName, EmptyLabels) }

\* The inputs of the invocations that table detection is studied on.
DetectionInputs ==
  { Input(GridStatements, EmptyLabels), Input(GridStatements, RequiredLabels),
    Input(GridMixed, RequiredLabels), Input(GridStandard, EmptyLabels),
    Input(GridOneRow, RequiredLabels), Input(GridTitled, EmptyLabels) }

AllInputs == Inputs \cup DetectionInputs

NoInput == Input(<<>>, NoLabelsArgument)

Grids == {in.grid : in \in AllInputs}

\* The texts of the cells of the inputs, and the empty string: the strings
\* the string-valued operators below are applied to.
Texts ==
  {""} \cup UNION { UNION { { stringOf(g[r][c]) : c \in 1..Len(g[r]) } :
                              r \in 1..Len(g) } : g \in Grids }

---------------------------------------------------------------------------
(* Account classification.                                                 *)

\* The value of `bestMatch` while it is still null.
NoClassification ==
  [primary |-> "", secondary |-> "", tertiary |-> "", confidence |-> 0,
   reasoning |-> ""]

\* { ...c, confidence, reasoning }
withConfidence(c, confidence, reasoning) ==
  [primary |-> c.primary, secondary |-> c.secondary, tertiary |-> c.tertiary,
   confidence |-> confidence, reasoning |-> reasoning]

\* arr.sort((a, b) => b.confidence - a.confidence): a stable sort, highest
\* confidence first.
insertByConfidence(sorted, c) ==
  LET n == Cardinality({i \in 1..Len(sorted) : sorted[i].confidence >= c.confidence})
  IN SubSeq(sorted, 1, n) \o <<c>> \o SubSeq(sorted, n + 1, Len(sorted))

RECURSIVE sortByConfidence(_)
sortByConfidence(arr) ==
  IF Len(arr) = 0 THEN <<>>
  ELSE insertByConfidence(sortByConfidence(SubSeq(arr, 1, Len(arr) - 1)), arr[Len(arr)])

\* name.toLowerCase().split(' '), tabulated over Texts.  (This table and the
\* tables named ...Of below hold the values of a pure operator over the finite
\* set of its arguments, so that a value is computed once.)
wordsOf == [t \in Texts |-> split(toLowerCase(t))]

\* this.processedEntries.forEach(...) of findSimilarEntries: the entries of
\* run memory, in insertion order, whose name shares a word with accountName.
findSimilarEntries(accountName, memory) ==
  LET words == wordsOf[accountName]
      similar(entry) ==
        LET entryWords == wordsOf[entry.accountName]
        IN \E w \in 1..Len(words) : arrIncludes(entryWords, words[w])
  IN SelectSeq(memory, similar)

codesOfMap == [i \in 1..Len(classificationMap) |-> classificationMap[i].code]

\* The matched standard code, "" for null.
findSimilarAccountCode(accountCode) ==
  LET bestMatch == findBestMatch(accountCode, codesOfMap)
  IN IF bestMatch.rating.num * 300 >= SIMILARITY_THRESHOLD * bestMatch.rating.den
       THEN bestMatch.target ELSE ""

similarCodeOf == [t \in Texts |-> findSimilarAccountCode(t)]

\* The confidence of a keyword list with `matched` of `total` keywords found.
keywordConfidence(matched, total) == Min(Frac(8, 10), Frac(matched, total) + Frac(3, 10))

\* The keywords of a list that occur in the lower-cased name.
keywordMatches(keywords, nameLower) ==
  SelectSeq(keywords, LAMBDA keyword : includes(nameLower, toLowerCase(keyword)))

RECURSIVE keywordResultsFrom(_, _)
keywordResultsFrom(i, nameLower) ==
  IF i > Len(HIERARCHICAL) THEN <<>>
  ELSE LET leaf == HIERARCHICAL[i]
           matches == keywordMatches(leaf.keywords, nameLower)
       IN (IF leaf.isArray /\ Len(matches) > 0
             THEN << [primary |-> leaf.primary, secondary |-> leaf.secondary,
                      tertiary |-> leaf.tertiary,
                      confidence |-> keywordConfidence(Len(matches), Len(leaf.keywords)),
                      reasoning |-> "Matched keywords: " \o join(matches, ", ")] >>
             ELSE <<>>)
          \o keywordResultsFrom(i + 1, nameLower)

\* The classifications of the ClassificationResults, best first (matchedTerms
\* is read by nothing).
classifyByKeywords(accountName) ==
  sortByConfidence(keywordResultsFrom(1, toLowerCase(accountName)))

keywordResultsOf == [t \in Texts |-> classifyByKeywords(t)]

determineBasicCategory(accountName) ==
  LET nameLower == toLowerCase(accountName)
      hit(i) == /\ HIERARCHICAL[i].isArray
                /\ Len(keywordMatches(HIERARCHICAL[i].keywords, nameLower)) > 0
      hits == {i \in 1..Len(HIERARCHICAL) : hit(i)}
  IN IF hits # {}
       THEN HIERARCHICAL[CHOOSE i \in hits : \A j \in hits : i <= j].primary
     ELSE IF includes(nameLower, "asset") \/ includes(nameLower, "cash")
             \/ includes(nameLower, "receivable") THEN "Assets"
     ELSE IF includes(nameLower, "liabilit") \/ includes(nameLower, "payable")
       THEN "Liabilities"
     ELSE IF includes(nameLower, "revenue") \/ includes(nameLower, "income")
             \/ includes(nameLower, "sale") THEN "Revenue"
     ELSE IF includes(nameLower, "expense") \/ includes(nameLower, "cost")
       THEN "Expenses"
     ELSE IF includes(nameLower, "capital") \/ includes(nameLower, "equity")
             \/ includes(nameLower, "earnings") THEN "Equity"
     ELSE "Uncategorized"

basicCategoryOf == [t \in Texts |-> determineBasicCategory(t)]

\* The locals of classifyAccount: `alternatives`, `bestMatch` (hasBest is
\* bestMatch !== null), `bestConfidence`, and bestRef, the index of the
\* element of `alternatives` that is the same object as bestMatch (0 when
\* bestMatch is an object of its own).
NoMatchYet ==
  [alternatives |-> <<>>, hasBest |-> FALSE, bestMatch |-> NoClassification,
   bestRef |-> 0, bestConfidence |-> 0]

\* alternatives.push(alt) and, where alt.confidence > bestConfidence,
\* bestMatch = the element pushed.
pushCandidate(st, alt) ==
  IF alt.confidence > st.bestConfidence
    THEN [alternatives |-> Append(st.alternatives, alt), hasBest |-> TRUE,
          bestMatch |-> alt, bestRef |-> Len(st.alternatives) + 1,
          bestConfidence |-> alt.confidence]
    ELSE [st EXCEPT !.alternatives = Append(@, alt)]

\* Lines 299-311 for the value of similarCode.
fuzzyWith(st, similarCode) ==
  IF similarCode # "" /\ inMap(similarCode)
    THEN pushCandidate(st, withConfidence(mapGet(similarCode), Frac(7, 10),
                             "Similar to account code " \o similarCode))
    ELSE st

\* Lines 298-311.
fuzzyStep(st, accountCode) == fuzzyWith(st, similarCodeOf[accountCode])

\* Lines 313-331.
RECURSIVE prefixStep(_, _, _)
prefixStep(st, accountCode, i) ==
  IF i > Len(classificationMap) THEN st
  ELSE LET code == classificationMap[i].code
           confidence == Frac(8, 10)
           alt == withConfidence(classificationMap[i].classification, confidence,
                    "Account code prefix matches standard classification " \o code)
           st1 == IF confidence > st.bestConfidence
                    THEN [st EXCEPT !.hasBest = TRUE, !.bestMatch = alt,
                                    !.bestRef = 0, !.bestConfidence = confidence]
                    ELSE st
       IN IF startsWith(accountCode, substring0(code, 2))
            THEN prefixStep([st1 EXCEPT !.alternatives = Append(@, alt)],
                            accountCode, i + 1)
            ELSE prefixStep(st, accountCode, i + 1)

\* Lines 335-342 for the value of similarEntries: the alternative is pushed
\* and bestMatch is left as it is.
memoryWith(st, similarEntries) ==
  IF Len(similarEntries) > 0
    THEN [st EXCEPT !.alternatives =
            Append(@, withConfidence(similarEntries[1].classification, Frac(7, 10),
                        "Similar to previously classified entry: "
                          \o similarEntries[1].accountName))]
    ELSE st

\* Lines 333-342.
memoryStep(st, accountName, memory) ==
  memoryWith(st, findSimilarEntries(accountName, memory))

\* A variant of keywordStep in which a keyword match of equal confidence
\* replaces bestMatch.
RECURSIVE keywordStepReplacingEqual(_, _, _)
keywordStepReplacingEqual(st, keywordResults, i) ==
  IF i > Len(keywordResults) THEN st
  ELSE LET c == keywordResults[i]
           st1 == IF c.confidence >= st.bestConfidence
                    THEN [st EXCEPT !.hasBest = TRUE, !.bestMatch = c,
                                    !.bestRef = Len(st.alternatives) + 1,
                                    !.bestConfidence = c.confidence]
                    ELSE st
       IN keywordStepReplacingEqual([st1 EXCEPT !.alternatives = Append(@, c)],
                                    keywordResults, i + 1)

\* Lines 344-352.
RECURSIVE keywordStep(_, _, _)
keywordStep(st, keywordResults, i) ==
  IF i > Len(keywordResults) THEN st
  ELSE LET c == keywordResults[i]
           st1 == IF c.confidence > st.bestConfidence
                    THEN [st EXCEPT !.hasBest = TRUE, !.bestMatch = c,
                                    !.bestRef = Len(st.alternatives) + 1,
                                    !.bestConfidence = c.confidence]
                    ELSE st
       IN keywordStep([st1 EXCEPT !.alternatives = Append(@, c)], keywordResults, i + 1)

\* The locals after the four strategies that follow the exact match.
strategies(accountCode, accountName, memory) ==
  keywordStep(
    memoryStep(prefixStep(fuzzyStep(NoMatchYet, accountCode), accountCode, 1),
               accountName, memory),
    keywordResultsOf[accountName], 1)

\* A variant of fallbackClassification with confidence 0.8.
fallbackAtThreshold(accountName) ==
  [primary |-> basicCategoryOf[accountName], secondary |-> "Needs Review",
   tertiary |-> "Unclassified", confidence |-> Frac(8, 10),
   reasoning |-> "Basic category determined from account name: " \o accountName]

\* Lines 354-362.
fallbackClassification(accountName) ==
  [primary |-> basicCategoryOf[accountName], secondary |-> "Needs Review",
   tertiary |-> "Unclassified", confidence |-> Frac(3, 10),
   reasoning |-> "Basic category determined from account name: " \o accountName]

\* this.processedEntries.set(code, entry): a Map keeps the position of a key
\* it already holds.
mapSet(memory, entry) ==
  IF \E i \in 1..Len(memory) : memory[i].accountCode = entry.accountCode
    THEN [i \in 1..Len(memory) |->
            IF memory[i].accountCode = entry.accountCode THEN entry ELSE memory[i]]
    ELSE Append(memory, entry)

\* alternatives.filter(alt => alt !== bestMatch): object identity.
withoutBest(alternatives, bestRef) ==
  IF bestRef = 0 THEN alternatives
  ELSE SubSeq(alternatives, 1, bestRef - 1)
         \o SubSeq(alternatives, bestRef + 1, Len(alternatives))

\* classifyAccount(accountCode, accountName) called by invocation `by` with
\* run memory `memory`: what it returns (classification, alternatives), its
\* local `alternatives` before the filter (candidates), what it pushes onto
\* this.unmatchedEntries (unmatched: no or one entry), the run memory it
\* leaves, and memoryFrom: the history field `by` of the memory entry its
\* run-memory alternative was copied from (0 when there is none).
\* Lines 364-390 for the locals `st` left by the strategies, the value
\* `bestMatch` has after line 362 and the similarEntries of line 334.
classified(st, bestMatch, similarEntries, accountCode, accountName, memory, by) ==
  [classification |-> bestMatch, candidates |-> st.alternatives,
   alternatives |->
     SubSeq(sortByConfidence(withoutBest(st.alternatives, st.bestRef)), 1,
            Min(3, Len(st.alternatives) - (IF st.bestRef = 0 THEN 0 ELSE 1))),
   unmatched |->
     IF st.hasBest THEN <<>>
     ELSE << [accountCode |-> accountCode, accountName |-> accountName,
              possibleClassifications |-> st.alternatives,
              reason |-> "No confident match found", by |-> by] >>,
   memory |->
     mapSet(memory,
       [accountCode |-> accountCode, accountName |-> accountName, debit |-> 0,
        credit |-> 0, classification |-> bestMatch, sourceTable |-> "",
        rowIndex |-> 0, by |-> by]),
   memoryFrom |-> IF Len(similarEntries) > 0 THEN similarEntries[1].by ELSE 0]

\* Lines 354-390 for the locals `st` left by the strategies.
afterStrategies(st, accountCode, accountName, memory, by) ==
  classified(st,
             IF st.hasBest THEN st.bestMatch ELSE fallbackClassification(accountName),
             findSimilarEntries(accountName, memory),
             accountCode, accountName, memory, by)

\* A variant of classifyAccount that leaves out the exact match of lines
\* 286-292.
classifyWithoutExactMatch(accountCode, accountName, memory, by) ==
  afterStrategies(strategies(accountCode, accountName, memory),
                  accountCode, accountName, memory, by)

\* Lines 286-292: the exact match returns the standard classification as it
\* is, with no alternatives, and stores nothing; every other code goes
\* through the strategies.
classifyAccount(accountCode, accountName, memory, by) ==
  IF inMap(accountCode)
    THEN [classification |-> mapGet(accountCode), candidates |-> <<>>,
          alternatives |-> <<>>, unmatched |-> <<>>, memory |-> memory,
          memoryFrom |-> 0]
  ELSE afterStrategies(strategies(accountCode, accountName, memory),
                       accountCode, accountName, memory, by)

---------------------------------------------------------------------------
(* Table detection.                                                        *)

\* labelTypes.has('account_description') && has('debit') && has('credit')
hasRequiredLabels(labels) ==
  LET labelTypes == {labels[i].type : i \in 1..Len(labels)}
  IN "account_description" \in labelTypes /\ "debit" \in labelTypes
       /\ "credit" \in labelTypes

LogEntry(level, message, by) == [level |-> level, message |-> message, by |-> by]

\* Lines 448-457: the lower-cased values of the string cells of a row.
RECURSIVE headerCellsFrom(_, _)
headerCellsFrom(row, c) ==
  IF c > Len(row) THEN <<>>
  ELSE (IF row[c].t = "s" THEN <<toLowerCase(row[c].s)>> ELSE <<>>)
         \o headerCellsFrom(row, c + 1)

\* Lines 462-473: the rows below `row` that hold a cell.
dataRowCountBelow(grid, row) ==
  Cardinality({dataRow \in (row + 1)..Len(grid) :
                 \E col \in 1..Width(grid) : grid[dataRow][col].t # "z"})

countFinancialKeywords(headers) ==
  LET allKeywords == TRIAL_BALANCE \o BALANCE_SHEET \o INCOME_STATEMENT
  IN Cardinality({h \in 1..Len(headers) :
                    \E k \in 1..Len(allKeywords) : includes(headers[h], allKeywords[k])})

\* A variant of determineTableType that looks for a balance sheet before a
\* trial balance.
determineTableTypeBalanceSheetFirst(headers) ==
  LET headerStr == join(headers, " ")
      some(keywords) == \E k \in 1..Len(keywords) : includes(headerStr, keywords[k])
  IN IF some(BALANCE_SHEET)
        \/ (arrIncludes(headers, "assets") /\ arrIncludes(headers, "liabilities"))
       THEN "BALANCE_SHEET"
     ELSE IF some(TRIAL_BALANCE)
        \/ (arrIncludes(headers, "debit") /\ arrIncludes(headers, "credit"))
       THEN "TRIAL_BALANCE"
     ELSE IF some(INCOME_STATEMENT)
        \/ (arrIncludes(headers, "revenue") /\ arrIncludes(headers, "expenses"))
       THEN "INCOME_STATEMENT"
     ELSE "UNKNOWN"

determineTableType(headers) ==
  LET headerStr == join(headers, " ")
      some(keywords) == \E k \in 1..Len(keywords) : includes(headerStr, keywords[k])
  IN IF some(TRIAL_BALANCE)
        \/ (arrIncludes(headers, "debit") /\ arrIncludes(headers, "credit"))
       THEN "TRIAL_BALANCE"
     ELSE IF some(BALANCE_SHEET)
        \/ (arrIncludes(headers, "assets") /\ arrIncludes(headers, "liabilities"))
       THEN "BALANCE_SHEET"
     ELSE IF some(INCOME_STATEMENT)
        \/ (arrIncludes(headers, "revenue") /\ arrIncludes(headers, "expenses"))
       THEN "INCOME_STATEMENT"
     ELSE "UNKNOWN"

\* type.toLowerCase().replace('_', ' ')
typeLabel(type) ==
  CASE type = "TRIAL_BALANCE" -> "trial balance"
    [] type = "BALANCE_SHEET" -> "balance sheet"
    [] type = "INCOME_STATEMENT" -> "income statement"
    [] OTHER -> "unknown"

generateTableName(type, index) == typeLabel(type) \o "_" \o natToString(index + 1)

\* 0/0 is NaN and Math.min(1, NaN) is NaN: a type without a keyword list
\* gives NaN.
calculateTableConfidence(headers, type) ==
  LET relevantKeywords == KeywordsOfType(type)
      essential == IF arrIncludes(headers, "debit") /\ arrIncludes(headers, "credit")
                     THEN Frac(4, 10) ELSE 0
      naming == IF arrIncludes(headers, "account") \/ arrIncludes(headers, "description")
                  THEN Frac(3, 10) ELSE 0
      keywordMatchCount ==
        Cardinality({k \in 1..Len(relevantKeywords) :
                       \E h \in 1..Len(headers) : includes(headers[h], relevantKeywords[k])})
  IN IF Len(relevantKeywords) = 0 THEN NaN
     ELSE Min(Frac(1, 1),
              essential + naming
                + Frac(keywordMatchCount * 3, Len(relevantKeywords) * 10))

\* Math.min(1, calculateTableConfidence(...) + confidenceBoost)
boostedConfidence(confidence, confidenceBoost) ==
  IF IsNaN(confidence) THEN NaN ELSE Min(Frac(1, 1), confidence + confidenceBoost)

\* Lines 484-495: the DetectedTable of a header row, for the tableType of
\* line 483 and the number of tables found before it.
strictTable(grid, required, row, headerCells, dataRowCount, tableType, index) ==
  [name |-> generateTableName(tableType, index), sheetName |-> sheetNameOf(grid),
   range |-> encode_cell(row, 1) \o ":"
               \o encode_cell(row + dataRowCount, Width(grid)),
   headers |-> headerCells, rowCount |-> dataRowCount,
   confidence |->
     boostedConfidence(calculateTableConfidence(headerCells, tableType),
                       IF required THEN Frac(2, 10) ELSE 0),
   type |-> tableType, headerRow |-> row]

\* tables.push(table) and the log entry of line 497.
pushTable(acc, table, by) ==
  [tables |-> Append(acc.tables, table),
   logs |-> Append(acc.logs, LogEntry("INFO", "Detected table: " \o table.name, by))]

\* Lines 459-505 for one row, its headerCells and its dataRowCount.
strictRow(grid, required, row, headerCells, dataRowCount, acc, by) ==
  IF /\ Len(headerCells) >= 2
     /\ dataRowCount >= MIN_TABLE_ROWS
     /\ (countFinancialKeywords(headerCells) >= MIN_FINANCIAL_KEYWORDS \/ required)
    THEN pushTable(acc,
           strictTable(grid, required, row, headerCells, dataRowCount,
                       determineTableType(headerCells), Len(acc.tables)),
           by)
    ELSE acc

\* Lines 442-507: the strict pass from row `row` on; acc holds `tables` and
\* the log entries appended so far.
RECURSIVE strictFrom(_, _, _, _, _)
strictFrom(grid, required, row, acc, by) ==
  IF row > Len(grid) THEN acc
  ELSE strictFrom(grid, required, row + 1,
         strictRow(grid, required, row, headerCellsFrom(grid[row], 1),
                   dataRowCountBelow(grid, row), acc, by),
         by)

\* The tables and log entries of the strict pass (lines 427-507).
strictPass(grid, labels, by) ==
  strictFrom(grid, hasRequiredLabels(labels), 1,
    [tables |-> <<>>,
     logs |-> IF hasRequiredLabels(labels)
                THEN <<LogEntry("INFO", "Found required column labels via JigsawStack", by)>>
                ELSE <<>>],
    by)

\* allData[row].filter(cell => cell && typeof cell === 'string'), lower-cased
RECURSIVE potentialHeadersFrom(_, _)
potentialHeadersFrom(row, c) ==
  IF c > Len(row) THEN <<>>
  ELSE (IF row[c].t = "s" /\ row[c].s # "" THEN <<toLowerCase(row[c].s)>> ELSE <<>>)
         \o potentialHeadersFrom(row, c + 1)

\* sheet_to_json(workbook, {header: 1}) keeps blank rows: allData has one
\* array per row of the range.
\* Lines 538-554: the table of the 1-based row `row` and its log entry.
lenientTable(grid, required, row, by) ==
  [tables |->
     << [name |-> "table_" \o natToString(row), sheetName |-> sheetNameOf(grid),
         range |-> encode_cell(row, 1) \o ":" \o encode_cell(Len(grid), Width(grid)),
         headers |-> potentialHeadersFrom(grid[row], 1),
         rowCount |-> Len(grid) - row,
         confidence |-> IF required THEN Frac(7, 10) ELSE Frac(5, 10),
         type |-> "UNKNOWN", headerRow |-> row] >>,
   logs |-> <<LogEntry("INFO",
                "Detected table with lenient criteria: table_" \o natToString(row), by)>>]

\* Lines 529-557 from row `row` on: the first row that qualifies returns.
RECURSIVE lenientFrom(_, _, _, _)
lenientFrom(grid, required, row, by) ==
  IF row > Len(grid) THEN [tables |-> <<>>, logs |-> <<>>]
  ELSE IF /\ (Len(potentialHeadersFrom(grid[row], 1)) >= 2 \/ required)
          /\ Len(grid) - row >= MIN_TABLE_ROWS
    THEN lenientTable(grid, required, row, by)
  ELSE lenientFrom(grid, required, row + 1, by)

detectTablesLenient(grid, labels, by) ==
  lenientFrom(grid, hasRequiredLabels(labels), 1, by)

\* A variant of lenientIfNone that returns the tables of both passes.
lenientAlways(strict, lenient, by) ==
  [tables |-> strict.tables \o lenient.tables, logs |-> strict.logs \o lenient.logs]

\* Lines 509-515 for what the strict pass found and what the lenient pass
\* returns when it is called.
lenientIfNone(strict, lenient, by) ==
  IF Len(strict.tables) = 0
    THEN [tables |-> lenient.tables,
          logs |-> strict.logs
             \o <<LogEntry("WARNING",
                    "No tables detected with strict criteria, attempting lenient detection",
                    by)>>
             \o lenient.logs]
    ELSE strict

\* detectTables: the tables returned and the log entries appended.
detectTables(grid, labels, by) ==
  lenientIfNone(strictPass(grid, labels, by), detectTablesLenient(grid, labels, by), by)

DefinedInputs == {in \in AllInputs : in.labels.defined}

detectTablesOf ==
  [in \in DefinedInputs, by \in 1..MaxRuns |-> detectTables(in.grid, in.labels.list, by)]

---------------------------------------------------------------------------
(* utils.sheet_to_json(worksheet): the rows below the first row of the     *)
(* range as objects keyed by the first row's cells; rows without a cell    *)
(* are left out.  An object is a function from its keys to cells.          *)

\* The text a header cell is keyed by ("__EMPTY" where there is no cell).
headerText(cell) == IF cell.t = "z" THEN "__EMPTY" ELSE stringOf(cell)

\* The key of column c: a text met before gets the suffix _<count>.
headerKey(grid, c) ==
  LET text == headerText(grid[1][c])
      before == Cardinality({d \in 1..(c - 1) : headerText(grid[1][d]) = text})
  IN IF before = 0 THEN text ELSE text \o "_" \o natToString(before)

rowObject(grid, r) ==
  LET present == {c \in 1..Width(grid) : grid[r][c].t # "z"}
  IN [key \in {headerKey(grid, c) : c \in present} |->
        grid[r][CHOOSE c \in present : headerKey(grid, c) = key]]

RECURSIVE rawDataFrom(_, _)
rawDataFrom(grid, r) ==
  IF r > Len(grid) THEN <<>>
  ELSE (IF \E c \in 1..Width(grid) : grid[r][c].t # "z"
          THEN <<rowObject(grid, r)>> ELSE <<>>)
         \o rawDataFrom(grid, r + 1)

sheet_to_json(grid) == rawDataFrom(grid, 2)

rawDataOf == [g \in Grids |-> sheet_to_json(g)]

\* row.<key>: Nil stands for undefined
field(row, key) == IF key \in DOMAIN row THEN row[key] ELSE Nil

---------------------------------------------------------------------------
(* Row predicates and total extraction.                                    *)

isEmptyRow(row) == \A key \in DOMAIN row : row[key].t = "s" /\ row[key].s = ""

headerKeywords ==
  << "assets", "liabilities", "equity", "revenue", "expenses",
     "current", "non-current", "operating", "financing" >>

\* String(val).toLowerCase() includes one of the header keywords
hasHeaderKeyword(text) ==
  \E k \in 1..Len(headerKeywords) : includes(toLowerCase(text), headerKeywords[k])

hasHeaderKeywordOf == [t \in Texts |-> hasHeaderKeyword(t)]

isHeaderRow(row) == \E key \in DOMAIN row : hasHeaderKeywordOf[stringOf(row[key])]

\* accountName.includes('total') || accountName.startsWith('total') of the
\* lower-cased name
namesTotal(text) ==
  LET accountName == toLowerCase(text)
  IN includes(accountName, "total") \/ startsWith(accountName, "total")

namesTotalOf == [t \in Texts |-> namesTotal(t)]

\* String(row.AccountName || '').toLowerCase()
isTotalRow(row) ==
  LET name == field(row, "AccountName")
  IN namesTotalOf[IF truthy(name) THEN stringOf(name) ELSE ""]

allDigits(s) == Len(s) > 0 /\ \A i \in 1..Len(s) : IndexOf(Digits, CharAt(s, i)) > 0

RECURSIVE parseNat(_)
parseNat(s) ==
  IF Len(s) = 0 THEN 0
  ELSE parseNat(SubSeq(s, 1, Len(s) - 1)) * 10 + (IndexOf(Digits, CharAt(s, Len(s))) - 1)

\* The strings new Decimal(s) is modelled on: digits, with an optional sign
\* and an optional fraction of one or two digits.  Every other string of the
\* inputs below is one decimal.js rejects with a DecimalError.
unsignedDecimal(s) ==
  \/ allDigits(s)
  \/ \E p \in 2..(Len(s) - 1) :
       /\ CharAt(s, p) = "."
       /\ allDigits(SubSeq(s, 1, p - 1))
       /\ allDigits(SubSeq(s, p + 1, Len(s)))
       /\ Len(s) - p <= 2

isDecimalString(s) ==
  IF Len(s) > 0 /\ CharAt(s, 1) = "-" THEN unsignedDecimal(SubSeq(s, 2, Len(s)))
  ELSE unsignedDecimal(s)

parseUnsigned(s) ==
  IF allDigits(s) THEN parseNat(s) * 100
  ELSE LET p == IndexOf(s, ".")
           fraction == SubSeq(s, p + 1, Len(s))
       IN parseNat(SubSeq(s, 1, p - 1)) * 100
            + (IF Len(fraction) = 1 THEN parseNat(fraction) * 10 ELSE parseNat(fraction))

\* new Decimal(value || 0): ok is FALSE where the constructor throws.
toDecimal(cell) ==
  IF ~truthy(cell) THEN [ok |-> TRUE, value |-> 0]
  ELSE IF cell.t = "n" THEN [ok |-> TRUE, value |-> cell.n]
  ELSE IF ~isDecimalString(cell.s) THEN [ok |-> FALSE, value |-> 0]
  ELSE IF CharAt(cell.s, 1) = "-"
    THEN [ok |-> TRUE, value |-> 0 - parseUnsigned(SubSeq(cell.s, 2, Len(cell.s)))]
  ELSE [ok |-> TRUE, value |-> parseUnsigned(cell.s)]

\* The category of a total row's name (lines 652-659).
totalCategory(name) ==
  LET nameLower == toLowerCase(name)
  IN IF includes(nameLower, "asset") THEN "Assets"
     ELSE IF includes(nameLower, "liabilit") THEN "Liabilities"
     ELSE IF includes(nameLower, "equity") THEN "Equity"
     ELSE IF includes(nameLower, "revenue") THEN "Revenue"
     ELSE IF includes(nameLower, "expense") THEN "Expenses"
     ELSE "Other"

totalCategoryOf == [t \in Texts |-> totalCategory(t)]

\* A variant of totalSummary in which equal amounts give DEBIT.
totalSummaryTiesDebit(name, debit, credit, category) ==
  IF ~debit.ok \/ ~credit.ok
    THEN [ok |-> FALSE,
          summary |-> [name |-> name, amount |-> 0, type |-> "CREDIT",
                       category |-> category]]
  ELSE IF debit.value >= credit.value
    THEN [ok |-> TRUE,
          summary |-> [name |-> name, amount |-> debit.value, type |-> "DEBIT",
                       category |-> category]]
  ELSE [ok |-> TRUE,
        summary |-> [name |-> name, amount |-> credit.value, type |-> "CREDIT",
                     category |-> category]]

\* Lines 648-676 for the values of name, debit, credit and category.
totalSummary(name, debit, credit, category) ==
  IF ~debit.ok \/ ~credit.ok
    THEN [ok |-> FALSE,
          summary |-> [name |-> name, amount |-> 0, type |-> "CREDIT",
                       category |-> category]]
  ELSE IF debit.value > credit.value
    THEN [ok |-> TRUE,
          summary |-> [name |-> name, amount |-> debit.value, type |-> "DEBIT",
                       category |-> category]]
  ELSE [ok |-> TRUE,
        summary |-> [name |-> name, amount |-> credit.value, type |-> "CREDIT",
                     category |-> category]]

\* extractTotalSummary of a row that isTotalRow: ok is FALSE where a Decimal
\* constructor throws.
extractTotalSummary(row) ==
  totalSummary(stringOf(field(row, "AccountName")),
               toDecimal(field(row, "Debit")), toDecimal(field(row, "Credit")),
               totalCategoryOf[stringOf(field(row, "AccountName"))])

\* a.localeCompare(b) < 0 for two words of letters: alphabetical order,
\* letter case aside.
RECURSIVE lexLess(_, _)
lexLess(a, b) ==
  IF Len(b) = 0 THEN FALSE
  ELSE IF Len(a) = 0 THEN TRUE
  ELSE LET x == IndexOf(Lower, CharAt(a, 1))
           y == IndexOf(Lower, CharAt(b, 1))
       IN IF x # y THEN x < y
          ELSE lexLess(SubSeq(a, 2, Len(a)), SubSeq(b, 2, Len(b)))

localeCompareLess(a, b) == lexLess(toLowerCase(a), toLowerCase(b))

\* A variant of summaryBefore that puts the smaller amount of a category
\* first.
summaryBeforeAscending(a, b) ==
  IF a.category # b.category THEN localeCompareLess(a.category, b.category)
  ELSE a.amount < b.amount

\* The comparator of lines 775-780 puts a before b.
summaryBefore(a, b) ==
  IF a.category # b.category THEN localeCompareLess(a.category, b.category)
  ELSE a.amount > b.amount

\* totalsSummary.sort(comparator): a stable sort.
insertSummary(sorted, x) ==
  LET n == Cardinality({i \in 1..Len(sorted) : ~summaryBefore(x, sorted[i])})
  IN SubSeq(sorted, 1, n) \o <<x>> \o SubSeq(sorted, n + 1, Len(sorted))

RECURSIVE sortSummaries(_)
sortSummaries(arr) ==
  IF Len(arr) = 0 THEN <<>>
  ELSE insertSummary(sortSummaries(SubSeq(arr, 1, Len(arr) - 1)), arr[Len(arr)])

---------------------------------------------------------------------------
(* processFile after `await file.arrayBuffer()` (lines 686-792).  It runs  *)
(* to the end without another await.                                       *)

\* The locals of the row loop, the log entries and unmatched entries pushed
\* onto the static arrays, the run memory, and `error`: the exception that
\* ended the loop ("" while there is none).  `calls` is a history field: the
\* calls of classifyAccount that returned, each with its arguments and what
\* it returned and did.
LoopStart(memory) ==
  [entries |-> <<>>, uncertainClassifications |-> <<>>, totalsSummary |-> <<>>,
   logs |-> <<>>, unmatched |-> <<>>, memory |-> memory, calls |-> <<>>,
   error |-> ""]

\* row.AccountCode?.toString() || ''
accountCodeOf(row) ==
  IF field(row, "AccountCode").t = "z" THEN "" ELSE stringOf(field(row, "AccountCode"))

\* row.AccountName || '' as a text (for a number cell the value itself is a
\* number: see nameThrows).
accountNameOf(row) ==
  IF truthy(field(row, "AccountName")) THEN stringOf(field(row, "AccountName")) ELSE ""

\* accountName.toLowerCase() of findSimilarEntries throws on a number; the
\* exact match returns before it.
nameThrows(row) ==
  /\ truthy(field(row, "AccountName"))
  /\ field(row, "AccountName").t = "n"
  /\ ~inMap(accountCodeOf(row))

\* One call of classifyAccount as the history keeps it.
Call(accountCode, accountName, result) ==
  [accountCode |-> accountCode, accountName |-> accountName, result |-> result]

\* A variant of pushEntry that lists an entry as uncertain for its confidence
\* alone.
pushEntryByConfidenceAlone(acc, entry, result) ==
  [acc EXCEPT
     !.entries = Append(@, entry),
     !.uncertainClassifications =
       IF result.classification.confidence < Frac(8, 10)
         THEN Append(@, [entry |-> entry,
                         possibleClassifications |->
                           <<result.classification>> \o result.alternatives])
         ELSE @]

\* A variant of pushEntry that lists the alternatives without the entry's own
\* classification in front of them.
pushEntryAlternativesOnly(acc, entry, result) ==
  [acc EXCEPT
     !.entries = Append(@, entry),
     !.uncertainClassifications =
       IF result.classification.confidence < Frac(8, 10) \/ Len(result.alternatives) > 0
         THEN Append(@, [entry |-> entry,
                         possibleClassifications |-> result.alternatives])
         ELSE @]

\* Lines 735-753 for the entry built at lines 735-743 and the result of
\* classifyAccount.
pushEntry(acc, entry, result) ==
  [acc EXCEPT
     !.entries = Append(@, entry),
     !.uncertainClassifications =
       IF result.classification.confidence < Frac(8, 10) \/ Len(result.alternatives) > 0
         THEN Append(@, [entry |-> entry,
                         possibleClassifications |->
                           <<result.classification>> \o result.alternatives])
         ELSE @]

\* Lines 729-753 for the result of classifyAccount and the two Decimals.
\* classifyAccount has pushed and stored what it does before a Decimal
\* constructor throws.
dataRowWith(acc, result, debit, credit, accountCode, accountName, index, sourceTable) ==
  IF ~debit.ok \/ ~credit.ok
    THEN [acc EXCEPT !.memory = result.memory,
                     !.unmatched = @ \o result.unmatched,
                     !.calls = Append(@, Call(accountCode, accountName, result)),
                     !.error = "DecimalError"]
    ELSE pushEntry([acc EXCEPT !.memory = result.memory,
                               !.unmatched = @ \o result.unmatched,
                               !.calls = Append(@, Call(accountCode, accountName, result))],
                   [accountCode |-> accountCode, accountName |-> accountName,
                    debit |-> debit.value, credit |-> credit.value,
                    classification |-> result.classification,
                    sourceTable |-> sourceTable, rowIndex |-> index],
                   result)

\* Lines 729-754: a data row.
dataRow(acc, row, index, sourceTable, by) ==
  IF nameThrows(row) THEN [acc EXCEPT !.error = "TypeError"]
  ELSE dataRowWith(acc,
         classifyAccount(accountCodeOf(row), accountNameOf(row), acc.memory, by),
         toDecimal(field(row, "Debit")), toDecimal(field(row, "Credit")),
         accountCodeOf(row), accountNameOf(row), index, sourceTable)

\* Lines 719-726 for what extractTotalSummary returns.
pushTotal(acc, total, by) ==
  IF ~total.ok THEN [acc EXCEPT !.error = "DecimalError"]
  ELSE [acc EXCEPT
          !.totalsSummary = Append(@, total.summary),
          !.logs = Append(@,
            LogEntry("INFO", "Extracted total summary: " \o total.summary.name, by))]

\* Lines 706-755: the body of rawData.forEach for the row at `index`
\* (0-based).
rowStep(acc, row, index, sourceTable, by) ==
  IF isEmptyRow(row)
    THEN [acc EXCEPT !.logs = Append(@,
            LogEntry("INFO", "Skipping empty row at index " \o natToString(index), by))]
  ELSE IF isHeaderRow(row)
    THEN [acc EXCEPT !.logs = Append(@,
            LogEntry("INFO", "Skipping header row at index " \o natToString(index), by))]
  ELSE IF isTotalRow(row) THEN pushTotal(acc, extractTotalSummary(row), by)
  ELSE dataRow(acc, row, index, sourceTable, by)

RECURSIVE rowLoop(_, _, _, _, _)
rowLoop(acc, rawData, i, sourceTable, by) ==
  IF i > Len(rawData) \/ acc.error # "" THEN acc
  ELSE rowLoop(rowStep(acc, rawData[i], i - 1, sourceTable, by), rawData, i + 1,
               sourceTable, by)

RECURSIVE sumDebit(_)
sumDebit(entries) ==
  IF Len(entries) = 0 THEN 0 ELSE entries[1].debit + sumDebit(Tail(entries))

RECURSIVE sumCredit(_)
sumCredit(entries) ==
  IF Len(entries) = 0 THEN 0 ELSE entries[1].credit + sumCredit(Tail(entries))

\* totalDebits.equals(totalCredits)
balanced(totalDebits, totalCredits) == totalDebits = totalCredits

\* detectTables has returned nothing (yet).
NoTables == [tables |-> <<>>, logs |-> <<>>]

NoResult ==
  [entries |-> <<>>, totalDebits |-> 0, totalCredits |-> 0, isBalanced |-> FALSE,
   detectedTables |-> <<>>, uncertainClassifications |-> <<>>,
   totalsSummary |-> <<>>]

\* this.log('ERROR', message); throw new Error(message)
throwError(message, detected, memory, by) ==
  [error |-> message, logs |-> Append(detected.logs, LogEntry("ERROR", message, by)),
   unmatched |-> <<>>, memory |-> memory, calls |-> <<>>, detected |-> detected,
   result |-> NoResult]

\* Lines 757-792 for the values of totalDebits and totalCredits.
trialBalance(detected, loop, totalDebits, totalCredits, by) ==
  [error |-> "",
   logs |-> detected.logs \o loop.logs
      \o (IF balanced(totalDebits, totalCredits) THEN <<>>
          ELSE <<LogEntry("WARNING", "Trial balance is not balanced", by)>>),
   unmatched |-> loop.unmatched, memory |-> loop.memory,
   calls |-> loop.calls, detected |-> detected,
   result |->
     [entries |-> loop.entries, totalDebits |-> totalDebits,
      totalCredits |-> totalCredits,
      isBalanced |-> balanced(totalDebits, totalCredits),
      detectedTables |-> detected.tables,
      uncertainClassifications |-> loop.uncertainClassifications,
      totalsSummary |-> sortSummaries(loop.totalsSummary)]]

\* Lines 757-792 for what the row loop left; an exception thrown in the
\* loop leaves processFile.
afterLoop(detected, loop, by) ==
  IF loop.error # ""
    THEN [error |-> loop.error, logs |-> detected.logs \o loop.logs,
          unmatched |-> loop.unmatched, memory |-> loop.memory,
          calls |-> loop.calls, detected |-> detected, result |-> NoResult]
    ELSE trialBalance(detected, loop, sumDebit(loop.entries), sumCredit(loop.entries), by)

\* A variant of afterDetection that looks at the rows before the tables.
afterDetectionRowsFirst(detected, rawData, memory, by) ==
  IF Len(rawData) = 0
    THEN throwError("No data found in the worksheet", detected, memory, by)
  ELSE IF Len(detected.tables) = 0
    THEN throwError("No financial tables detected in the file", detected, memory, by)
  ELSE afterLoop(detected,
                 rowLoop(LoopStart(memory), rawData, 1, detected.tables[1].name, by),
                 by)

\* Lines 691-792 for what detectTables and sheet_to_json returned.
afterDetection(detected, rawData, memory, by) ==
  IF Len(detected.tables) = 0
    THEN throwError("No financial tables detected in the file", detected, memory, by)
  ELSE IF Len(rawData) = 0
    THEN throwError("No data found in the worksheet", detected, memory, by)
  ELSE afterLoop(detected,
                 rowLoop(LoopStart(memory), rawData, 1, detected.tables[1].name, by),
                 by)

\* Lines 686-792 for invocation `by` on worksheet `grid` with `labels`, run
\* memory `memory`: the error it throws ("" when it returns), the log
\* entries and unmatched entries it pushes, the run memory it leaves and the
\* TrialBalance it returns (its processingLogs and unmatchedEntries are
\* references to the static arrays and are held by the caller of this
\* operator).
processSheet(grid, labels, memory, by) ==
  afterDetection(detectTablesOf[Input(grid, Labels(labels)), by], rawDataOf[grid],
                 memory, by)

---------------------------------------------------------------------------
(* One invocation after the await.                                         *)

\* processFile after the await, for one input.
run(input, memory, by) ==
  IF ~input.labels.defined
    \* labels.map of detectTables throws before anything is logged
    THEN [error |-> "TypeError", logs |-> <<>>, unmatched |-> <<>>, memory |-> memory,
          calls |-> <<>>, detected |-> NoTables, result |-> NoResult]
    ELSE processSheet(input.grid, input.labels.list, memory, by)

---------------------------------------------------------------------------
(* The state: the static fields of FinancialProcessor and the invocations. *)

Runs == 1..MaxRuns
\* Array 0 is the array of the field initialiser; array i is the array
\* created by invocation i.
Arrays == 0..MaxRuns

VARIABLES
  processingLogs,     \* the array this.processingLogs refers to
  logArrays,          \* the contents of every log array
  processedEntries,   \* the Map, as its entries in insertion order
  unmatchedEntries,   \* the array this.unmatchedEntries refers to
  unmatchedArrays,    \* the contents of every unmatched-entry array
  pc,                 \* where each invocation is
  input,              \* the arguments of each invocation
  outcome,            \* what each invocation returned or threw
  detected,           \* history: what detectTables returned to each invocation
  calls               \* history: the classifyAccount calls of each invocation

vars ==
  << processingLogs, logArrays, processedEntries, unmatchedEntries,
     unmatchedArrays, pc, input, outcome, detected, calls >>

NoOutcome ==
  [error |-> "", result |-> NoResult, processingLogs |-> 0, unmatchedEntries |-> 0]

Init ==
  /\ processingLogs = 0
  /\ logArrays = [a \in Arrays |-> <<>>]
  /\ processedEntries = <<>>
  /\ unmatchedEntries = 0
  /\ unmatchedArrays = [a \in Arrays |-> <<>>]
  /\ pc = [i \in Runs |-> "idle"]
  /\ input = [i \in Runs |-> NoInput]
  /\ outcome = [i \in Runs |-> NoOutcome]
  /\ detected = [i \in Runs |-> NoTables]
  /\ calls = [i \in Runs |-> <<>>]

\* Invocations are numbered in the order they are called.
nextToStart(i) == pc[i] = "idle" /\ (IF i = 1 THEN TRUE ELSE pc[i - 1] # "idle")

\* A variant of Start that leaves out this.processedEntries.clear().
StartKeepsMemory(i, in) ==
  /\ nextToStart(i)
  /\ processingLogs' = i
  /\ logArrays' = [logArrays EXCEPT ![i] = <<LogEntry("INFO", "Starting file processing", i)>>]
  /\ processedEntries' = processedEntries
  /\ unmatchedEntries' = i
  /\ unmatchedArrays' = [unmatchedArrays EXCEPT ![i] = <<>>]
  /\ pc' = [pc EXCEPT ![i] = "awaiting"]
  /\ input' = [input EXCEPT ![i] = in]
  /\ UNCHANGED <<outcome, detected, calls>>

\* Lines 680-685: the reset of the static fields, the first log entry, and
\* the suspension at `await file.arrayBuffer()`.
Start(i, in) ==
  /\ nextToStart(i)
  /\ processingLogs' = i
  /\ logArrays' = [logArrays EXCEPT ![i] = <<LogEntry("INFO", "Starting file processing", i)>>]
  /\ processedEntries' = <<>>
  /\ unmatchedEntries' = i
  /\ unmatchedArrays' = [unmatchedArrays EXCEPT ![i] = <<>>]
  /\ pc' = [pc EXCEPT ![i] = "awaiting"]
  /\ input' = [input EXCEPT ![i] = in]
  /\ UNCHANGED <<outcome, detected, calls>>

\* file.arrayBuffer() rejects: processFile rejects with that error.
ReadFails(i) ==
  /\ pc[i] = "awaiting"
  /\ pc' = [pc EXCEPT ![i] = "failed"]
  /\ outcome' = [outcome EXCEPT ![i].error = "ReadError"]
  /\ UNCHANGED <<processingLogs, logArrays, processedEntries, unmatchedEntries,
                 unmatchedArrays, input, detected, calls>>

\* The caller gives the invocation up while it is suspended and the read
\* never completes.
Abandon(i) ==
  /\ pc[i] = "awaiting"
  /\ pc' = [pc EXCEPT ![i] = "abandoned"]
  /\ UNCHANGED <<processingLogs, logArrays, processedEntries, unmatchedEntries,
                 unmatchedArrays, input, outcome, detected, calls>>

\* Lines 686-792: the read completes and the rest of processFile runs.  The
\* static fields are read when the code reaches them, so the pushes go to the
\* arrays the fields refer to now.
Resume(i) ==
  /\ pc[i] = "awaiting"
  /\ \E r \in {run(input[i], processedEntries, i)} :
       /\ logArrays' = [logArrays EXCEPT ![processingLogs] = @ \o r.logs]
       /\ unmatchedArrays' = [unmatchedArrays EXCEPT ![unmatchedEntries] = @ \o r.unmatched]
       /\ processedEntries' = r.memory
       /\ detected' = [detected EXCEPT ![i] = r.detected]
       /\ calls' = [calls EXCEPT ![i] = r.calls]
       /\ pc' = [pc EXCEPT ![i] = IF r.error = "" THEN "done" ELSE "failed"]
       /\ outcome' = [outcome EXCEPT ![i] =
            [error |-> r.error, result |-> r.result,
             processingLogs |-> IF r.error = "" THEN processingLogs ELSE 0,
             unmatchedEntries |-> IF r.error = "" THEN unmatchedEntries ELSE 0]]
  /\ UNCHANGED <<processingLogs, unmatchedEntries, input>>

Next ==
  \/ \E i \in Runs, in \in Inputs : Start(i, in)
  \/ \E i \in Runs : ReadFails(i)
  \/ \E i \in Runs : Abandon(i)
  \/ \E i \in Runs : Resume(i)

Spec == Init /\ [][Next]_vars

\* One invocation at a time: the next one is called after the one before it
\* has returned, thrown or been given up.
StartAlone(i, in) == (\A j \in Runs : pc[j] # "awaiting") /\ Start(i, in)

NextSequential ==
  \/ \E i \in Runs, in \in Inputs : StartAlone(i, in)
  \/ \E i \in Runs : ReadFails(i)
  \/ \E i \in Runs : Abandon(i)
  \/ \E i \in Runs : Resume(i)

SpecSequential == Init /\ [][NextSequential]_vars

\* One invocation at a time, on the inputs of table detection.
NextDetection ==
  \/ \E i \in Runs, in \in DetectionInputs : StartAlone(i, in)
  \/ \E i \in Runs : ReadFails(i)
  \/ \E i \in Runs : Abandon(i)
  \/ \E i \in Runs : Resume(i)

SpecDetection == Init /\ [][NextDetection]_vars

---------------------------------------------------------------------------
(* Properties of the invocations.                                          *)

\* Invocation i has run the rest of processFile after the await.
resumed(i) == pc[i] \in {"done", "failed"} /\ outcome[i].error # "ReadError"

\* The processingLogs and the unmatchedEntries of the result returned to i.
logsOf(i) == logArrays[outcome[i].processingLogs]
unmatchedOf(i) == unmatchedArrays[outcome[i].unmatchedEntries]

inRange(confidence) == 0 <= confidence /\ confidence <= Frac(1, 1)

\* C1: when invocations overlap, no row of an invocation gets a run-memory
\* alternative copied from a row of another invocation, and the
\* unmatchedEntries of a returned result hold rows of that invocation only.
C1_OverlapIsolated ==
  \A i \in Runs :
    /\ \A k \in 1..Len(calls[i]) : calls[i][k].result.memoryFrom \in {0, i}
    /\ pc[i] = "done" =>
         \A u \in 1..Len(unmatchedOf(i)) : unmatchedOf(i)[u].by = i

\* C2: under any interleaving, the processingLogs of a returned result hold
\* entries appended by that invocation only, beginning with its one
\* 'Starting file processing' entry, in every state after the return.
C2_LogsOfOneInvocation ==
  \A i \in Runs :
    pc[i] = "done" =>
      /\ Len(logsOf(i)) >= 1
      /\ logsOf(i)[1].message = "Starting file processing"
      /\ \A l \in 1..Len(logsOf(i)) :
           /\ logsOf(i)[l].by = i
           /\ l > 1 => logsOf(i)[l].message # "Starting file processing"

\* What the caller of invocation i holds once it has returned.
returnedView(i) == <<outcome[i], logsOf(i), unmatchedOf(i)>>

\* C3: when invocations do not overlap, an invocation starts with an empty
\* run memory, a log that holds its own first entry only and an empty
\* unmatched list, however the invocation before it ended; none of its rows
\* gets a run-memory alternative from another invocation; and what an
\* invocation returned is never altered afterwards.
C3_SequentialRunsIsolated ==
  /\ [](\A i \in Runs :
          /\ pc[i] = "awaiting" =>
               /\ processedEntries = <<>>
               /\ processingLogs = i /\ unmatchedEntries = i
               /\ Len(logArrays[i]) = 1 /\ logArrays[i][1].by = i
               /\ unmatchedArrays[i] = <<>>
          /\ \A k \in 1..Len(calls[i]) : calls[i][k].result.memoryFrom \in {0, i})
  /\ [][\A i \in Runs : pc[i] = "done" => returnedView(i)' = returnedView(i)]_vars

\* Two invocations, one after the other, have classified the same names.
C3_Witness ==
  /\ pc[1] = "done" /\ pc[2] = "done"
  /\ input[1].grid = GridMisc /\ input[2].grid = GridMisc
  /\ Len(calls[2]) = 3 /\ calls[2][2].result.memoryFrom = 2

RECURSIVE sumOfDebits(_)
sumOfDebits(entries) ==
  IF entries = <<>> THEN 0 ELSE Head(entries).debit + sumOfDebits(Tail(entries))

RECURSIVE sumOfCredits(_)
sumOfCredits(entries) ==
  IF entries = <<>> THEN 0 ELSE Head(entries).credit + sumOfCredits(Tail(entries))

\* C4: in a returned result isBalanced is the equality of the sum of the
\* entries' debits and the sum of their credits, totalDebits and
\* totalCredits are those sums, and a WARNING 'Trial balance is not
\* balanced' entry is in the result's processingLogs exactly when isBalanced
\* is false.
C4_BalancedAndWarned ==
  \A i \in Runs :
    pc[i] = "done" =>
      LET r == outcome[i].result
      IN /\ r.totalDebits = sumOfDebits(r.entries)
         /\ r.totalCredits = sumOfCredits(r.entries)
         /\ r.isBalanced <=> (sumOfDebits(r.entries) = sumOfCredits(r.entries))
         /\ (~r.isBalanced) <=>
              \E l \in 1..Len(logsOf(i)) :
                /\ logsOf(i)[l].level = "WARNING"
                /\ logsOf(i)[l].message = "Trial balance is not balanced"

\* The standard chart of accounts as the specification reads it.
standardCodes ==
  { "1000", "1100", "1200", "1500", "2000", "2100", "2500", "3000", "3100",
    "4000", "4100", "5000", "5100", "5200" }

\* C5: a call of classifyAccount with a standard code returns that code's
\* classification with confidence 1 and no alternatives, has collected no
\* candidate and read no run memory, registers no UnmatchedEntry, and its
\* entry is not added to uncertainClassifications.
C5_ExactCode ==
  /\ \A i \in Runs : \A k \in 1..Len(calls[i]) :
       calls[i][k].accountCode \in standardCodes =>
         LET r == calls[i][k].result
         IN /\ \E m \in 1..Len(classificationMap) :
                 /\ classificationMap[m].code = calls[i][k].accountCode
                 /\ r.classification = classificationMap[m].classification
            /\ r.classification.confidence = Frac(1, 1)
            /\ r.alternatives = <<>>
            /\ r.candidates = <<>>
            /\ r.memoryFrom = 0
            /\ r.unmatched = <<>>
  /\ \A a \in Arrays : \A u \in 1..Len(unmatchedArrays[a]) :
       unmatchedArrays[a][u].accountCode \notin standardCodes
  /\ \A i \in Runs :
       pc[i] = "done" =>
         \A u \in 1..Len(outcome[i].result.uncertainClassifications) :
           outcome[i].result.uncertainClassifications[u].entry.accountCode
             \notin standardCodes

\* A standard code is classified after rows that share a word with its name
\* and its name holds a keyword.
C5_Witness ==
  \E i \in Runs :
    /\ pc[i] = "done"
    /\ Len(calls[i]) = 3
    /\ calls[i][3].accountCode = "1000" /\ calls[i][3].accountName = "Misc Cash"
    /\ calls[i][2].result.memoryFrom # 0
    /\ Len(outcome[i].result.entries) = 3

\* C6: classification never fails, and every classification it returns,
\* every alternative and every classification stored in unmatchedEntries has
\* a primary, a secondary, a tertiary and a confidence in [0,1].
C6_NeverFails ==
  /\ \A i \in Runs : input[i].labels.defined => outcome[i].error # "TypeError"
  /\ \A i \in Runs : \A k \in 1..Len(calls[i]) :
       LET r == calls[i][k].result
       IN /\ inRange(r.classification.confidence)
          /\ r.classification.primary # ""
          /\ r.classification.secondary # ""
          /\ r.classification.tertiary # ""
          /\ \A a \in 1..Len(r.alternatives) : inRange(r.alternatives[a].confidence)
          /\ \A u \in 1..Len(r.unmatched) :
               \A c \in 1..Len(r.unmatched[u].possibleClassifications) :
                 inRange(r.unmatched[u].possibleClassifications[c].confidence)

\* A strategy has produced a candidate of confidence above 0 for the call.
positiveCandidate(call) ==
  \/ call.accountCode \in standardCodes
  \/ \E c \in 1..Len(call.result.candidates) : call.result.candidates[c].confidence > 0

\* C7: an UnmatchedEntry is recorded for a row exactly when no strategy,
\* run-memory similarity included, produced a candidate of confidence above
\* 0 for it, and a row with such a candidate does not get the fallback
\* classification.
C7_UnmatchedIffNoCandidate ==
  \A i \in Runs : \A k \in 1..Len(calls[i]) :
    /\ (calls[i][k].result.unmatched # <<>>) <=> ~positiveCandidate(calls[i][k])
    /\ positiveCandidate(calls[i][k]) =>
         calls[i][k].result.classification.secondary # "Needs Review"

\* The taxonomy as the specification reads it: every keyword list under its
\* primary, the lists of EQUITY included.
taxonomyKeywords(leaf) == IF leaf.isArray THEN leaf.keywords ELSE <<leaf.value>>

occursIn(nameLower, keyword) ==
  \E p \in 1..(Len(nameLower) - Len(keyword) + 1) :
    SubSeq(nameLower, p, p + Len(keyword) - 1) = keyword

\* heuristicCategory as C8 states it.
heuristicCategory(name) ==
  LET nameLower == toLowerCase(name)
      has(part) == occursIn(nameLower, part)
      matching == {l \in 1..Len(HIERARCHICAL) :
                     \E w \in 1..Len(taxonomyKeywords(HIERARCHICAL[l])) :
                       has(taxonomyKeywords(HIERARCHICAL[l])[w])}
  IN IF matching # {}
       THEN HIERARCHICAL[CHOOSE l \in matching : \A m \in matching : l <= m].primary
     ELSE IF has("asset") \/ has("cash") \/ has("receivable") THEN "Assets"
     ELSE IF has("liabilit") \/ has("payable") THEN "Liabilities"
     ELSE IF has("revenue") \/ has("income") \/ has("sale") THEN "Revenue"
     ELSE IF has("expense") \/ has("cost") THEN "Expenses"
     ELSE IF has("capital") \/ has("equity") \/ has("earnings") THEN "Equity"
     ELSE "Uncategorized"

heuristicCategoryOf == [t \in Texts |-> heuristicCategory(t)]

\* C8: a row for which no strategy produced a candidate is classified
\* {heuristicCategory(name), "Needs Review", "Unclassified", 0.3} and exactly
\* one UnmatchedEntry with the row's code and name is appended, where
\* heuristicCategory is the first of: a taxonomy primary one of whose
\* keywords occurs in the name, then the five substring checks, then
\* "Uncategorized".
C8_Fallback ==
  \A i \in Runs : \A k \in 1..Len(calls[i]) :
    LET call == calls[i][k]
    IN (call.accountCode \notin standardCodes /\ call.result.candidates = <<>>) =>
         /\ call.result.classification.primary = heuristicCategoryOf[call.accountName]
         /\ call.result.classification.secondary = "Needs Review"
         /\ call.result.classification.tertiary = "Unclassified"
         /\ call.result.classification.confidence = Frac(3, 10)
         /\ Len(call.result.unmatched) = 1
         /\ call.result.unmatched[1].accountCode = call.accountCode
         /\ call.result.unmatched[1].accountName = call.accountName

\* The number of string cells of a row of the grid.
stringCells(row) == Cardinality({c \in 1..Len(row) : row[c].t = "s"})

\* The grid of C9: the header row Account, Debit, Credit, the only row with
\* two string cells or more, and at least two rows below it that hold a cell.
accountDebitCreditGrid(grid) ==
  /\ Len(grid) >= 3
  /\ grid[1] = <<Str("Account"), Str("Debit"), Str("Credit")>>
  /\ \A r \in 2..Len(grid) :
       /\ stringCells(grid[r]) < 2
       /\ \E c \in 1..Len(grid[r]) : grid[r][c].t # "z"

\* The lenient pass was called.
lenientCalled(i) ==
  \E l \in 1..Len(detected[i].logs) :
    detected[i].logs[l].message
      = "No tables detected with strict criteria, attempting lenient detection"

\* C9: for the grid Account, Debit, Credit with two data rows or more, the
\* strict pass returns exactly one table, of type TRIAL_BALANCE and of
\* confidence 0.7 or more, and the lenient pass is not used.
C9_AccountDebitCredit ==
  \A i \in Runs :
    (resumed(i) /\ input[i].labels.defined /\ accountDebitCreditGrid(input[i].grid)) =>
      /\ ~lenientCalled(i)
      /\ Len(detected[i].tables) = 1
      /\ detected[i].tables[1].type = "TRIAL_BALANCE"
      /\ detected[i].tables[1].confidence >= Frac(7, 10)

\* What each pass finds for an input, by itself.
strictTablesOf ==
  [in \in DefinedInputs |-> strictPass(in.grid, in.labels.list, 1).tables]

lenientTablesOf ==
  [in \in DefinedInputs |-> detectTablesLenient(in.grid, in.labels.list, 1).tables]

\* C10 as stated: detection returns a lenient table exactly when the strict
\* pass found none; when the strict pass found none, the lenient pass
\* returns a table.
C10_LenientIffStrictNone ==
  \A i \in Runs :
    (resumed(i) /\ input[i].labels.defined) =>
      IF strictTablesOf[input[i]] # <<>>
        THEN detected[i].tables = strictTablesOf[input[i]]
        ELSE /\ detected[i].tables = lenientTablesOf[input[i]]
             /\ Len(detected[i].tables) >= 1

\* C10, amended: detection returns the strict pass's tables when there is
\* one, and no lenient table then; when the strict pass found none it
\* returns what the lenient pass finds, which is one table or none, and with
\* none the run ends with 'No financial tables detected in the file'.
C10_LenientOnlyIfStrictNone ==
  \A i \in Runs :
    (resumed(i) /\ input[i].labels.defined) =>
      /\ IF strictTablesOf[input[i]] # <<>>
           THEN detected[i].tables = strictTablesOf[input[i]] /\ ~lenientCalled(i)
           ELSE /\ detected[i].tables = lenientTablesOf[input[i]]
                /\ Len(detected[i].tables) <= 1
                /\ lenientCalled(i)
      /\ (detected[i].tables = <<>>) <=>
           (outcome[i].error = "No financial tables detected in the file")

\* One invocation for which neither pass found a table, and one for which
\* the lenient pass alone found one.
C10_Witness ==
  \E i, j \in Runs :
    /\ resumed(i) /\ input[i].labels.defined
    /\ strictTablesOf[input[i]] = <<>> /\ detected[i].tables = <<>>
    /\ outcome[i].error = "No financial tables detected in the file"
    /\ resumed(j) /\ input[j].labels.defined
    /\ strictTablesOf[input[j]] = <<>> /\ Len(detected[j].tables) = 1

---------------------------------------------------------------------------
(* Properties of the rows of a run.                                        *)

\* The row objects of the worksheet invocation i was given.
rowsOf(i) == rawDataOf[input[i].grid]

\* The text of a row's AccountName cell ("" where there is none).
nameText(row) == stringOf(field(row, "AccountName"))

\* A row that holds a value and whose account name contains "total", letter
\* case aside.
totalNamed(row) ==
  /\ \E key \in DOMAIN row : ~(row[key].t = "s" /\ row[key].s = "")
  /\ occursIn(toLowerCase(nameText(row)), "total")

\* C11: in a returned result every non-empty row whose account name
\* contains "total" is extracted into exactly one TotalSummary and produces
\* no FinancialEntry; a row "Total Assets" with debit 1000 and no credit
\* gives the summary {Total Assets, 1000, DEBIT, Assets}.
C11_TotalRowsExtracted ==
  \A i \in Runs :
    pc[i] = "done" =>
      LET raw == rowsOf(i)
          r == outcome[i].result
          totalRows == {n \in 1..Len(raw) : totalNamed(raw[n])}
      IN /\ Len(r.totalsSummary) = Cardinality(totalRows)
         /\ \A n \in totalRows :
              /\ Cardinality({s \in 1..Len(r.totalsSummary) :
                                r.totalsSummary[s].name = nameText(raw[n])}) = 1
              /\ \A e \in 1..Len(r.entries) : r.entries[e].rowIndex # n - 1
              /\ (/\ nameText(raw[n]) = "Total Assets"
                  /\ field(raw[n], "Debit") = Num(100000)
                  /\ ~truthy(field(raw[n], "Credit")))
                   => \E s \in 1..Len(r.totalsSummary) :
                        r.totalsSummary[s]
                          = [name |-> "Total Assets", amount |-> 100000,
                             type |-> "DEBIT", category |-> "Assets"]

\* Entry k of the result returned to invocation i is listed in its
\* uncertainClassifications.
listedUncertain(i, k) ==
  \E u \in 1..Len(outcome[i].result.uncertainClassifications) :
    outcome[i].result.uncertainClassifications[u].entry = outcome[i].result.entries[k]

\* C12: in a returned result the entries listed in uncertainClassifications
\* are exactly the entries whose confidence is below 0.8 or whose returned
\* alternatives are not empty.
C12_UncertainIff ==
  \A i \in Runs :
    pc[i] = "done" =>
      LET r == outcome[i].result
      IN /\ Len(r.entries) = Len(calls[i])
         /\ \A k \in 1..Len(r.entries) :
              listedUncertain(i, k)
                <=> \/ r.entries[k].classification.confidence < Frac(8, 10)
                    \/ calls[i][k].result.alternatives # <<>>
         /\ \A u \in 1..Len(r.uncertainClassifications) :
              \E k \in 1..Len(r.entries) :
                r.uncertainClassifications[u].entry = r.entries[k]

\* An entry of confidence 0.8 with alternatives is listed, and an entry of
\* confidence 1 without alternatives is not.
C12_Witness ==
  \E i, j \in Runs :
    /\ pc[i] = "done" /\ pc[j] = "done"
    /\ \E k \in 1..Len(outcome[i].result.entries) :
         /\ outcome[i].result.entries[k].classification.confidence >= Frac(8, 10)
         /\ calls[i][k].result.alternatives # <<>>
         /\ listedUncertain(i, k)
    /\ \E k \in 1..Len(outcome[j].result.entries) :
         /\ outcome[j].result.entries[k].classification.confidence >= Frac(8, 10)
         /\ calls[j][k].result.alternatives = <<>>
         /\ ~listedUncertain(j, k)

\* Lexicographic order of two strings by character code, for the letters of
\* the category names (upper case before lower case).
codeOrder == Upper \o Lower

RECURSIVE lexicographicLess(_, _)
lexicographicLess(a, b) ==
  IF Len(b) = 0 THEN FALSE
  ELSE IF Len(a) = 0 THEN TRUE
  ELSE IF CharAt(a, 1) # CharAt(b, 1)
    THEN IndexOf(codeOrder, CharAt(a, 1)) < IndexOf(codeOrder, CharAt(b, 1))
  ELSE lexicographicLess(SubSeq(a, 2, Len(a)), SubSeq(b, 2, Len(b)))

\* The summaries of the total rows the row loop extracts, in row order.
RECURSIVE extractedFrom(_, _)
extractedFrom(raw, n) ==
  IF n > Len(raw) THEN <<>>
  ELSE (IF ~isEmptyRow(raw[n]) /\ ~isHeaderRow(raw[n]) /\ isTotalRow(raw[n])
          THEN <<extractTotalSummary(raw[n]).summary>> ELSE <<>>)
         \o extractedFrom(raw, n + 1)

occurrences(seq, x) == Cardinality({n \in 1..Len(seq) : seq[n] = x})

\* C13: in a returned result totalsSummary is in ascending lexicographic
\* order of category and, within a category, in descending order of amount,
\* and it is a permutation of the summaries extracted from the total rows.
C13_TotalsSorted ==
  \A i \in Runs :
    pc[i] = "done" =>
      LET sorted == outcome[i].result.totalsSummary
          extracted == extractedFrom(rowsOf(i), 1)
      IN /\ \A a, b \in 1..Len(sorted) :
              a < b =>
                /\ ~lexicographicLess(sorted[b].category, sorted[a].category)
                /\ sorted[a].category = sorted[b].category
                     => sorted[a].amount >= sorted[b].amount
         /\ Len(sorted) = Len(extracted)
         /\ \A n \in 1..Len(extracted) :
              occurrences(sorted, extracted[n]) = occurrences(extracted, extracted[n])

\* A result whose summaries were extracted in another order: a category
\* that sorts later came first, and the smaller amount of a category came
\* before the larger.
C13_Witness ==
  \E i \in Runs :
    /\ pc[i] = "done"
    /\ LET sorted == outcome[i].result.totalsSummary
           extracted == extractedFrom(rowsOf(i), 1)
       IN /\ Len(sorted) >= 4
          /\ sorted # extracted
          /\ \E a, b \in 1..Len(extracted) :
               /\ a < b
               /\ lexicographicLess(extracted[b].category, extracted[a].category)
          /\ \E a, b \in 1..Len(extracted) :
               /\ a < b
               /\ extracted[a].category = extracted[b].category
               /\ extracted[a].amount < extracted[b].amount

\* C14: a run does not fail because label hints are unavailable: an
\* invocation without a hint list does not end in a TypeError, and detection
\* returns the tables it returns for an empty hint list.
C14_NoHintsNoFailure ==
  \A i \in Runs :
    (resumed(i) /\ ~input[i].labels.defined) =>
      /\ outcome[i].error # "TypeError"
      /\ detected[i].tables
           = detectTablesOf[Input(input[i].grid, EmptyLabels), i].tables

\* The places of the log entries that invocation i appended, in any array.
logPlacesOf(i) ==
  UNION { { <<a, l>> : l \in {n \in 1..Len(logArrays[a]) : logArrays[a][n].by = i} } :
          a \in Arrays }

fatalMessages ==
  {"No financial tables detected in the file", "No data found in the worksheet"}

\* C15: a run whose detection yields no table ends with 'No financial
\* tables detected in the file'; otherwise a run whose worksheet yields no
\* row ends with 'No data found in the worksheet'.  Either way the
\* invocation has appended one ERROR entry with that message as its last
\* entry, has classified no row, has stored nothing in run memory and
\* registered no unmatched entry, and returns no result.
C15_FatalErrors ==
  \A i \in Runs :
    (resumed(i) /\ input[i].labels.defined) =>
      /\ (detected[i].tables = <<>>)
           <=> outcome[i].error = "No financial tables detected in the file"
      /\ (detected[i].tables # <<>> /\ rowsOf(i) = <<>>)
           <=> outcome[i].error = "No data found in the worksheet"
      /\ outcome[i].error \in fatalMessages =>
           /\ pc[i] = "failed"
           /\ outcome[i].result = NoResult
           /\ outcome[i].processingLogs = 0 /\ outcome[i].unmatchedEntries = 0
           /\ calls[i] = <<>>
           /\ \A m \in 1..Len(processedEntries) : processedEntries[m].by # i
           /\ \A a \in Arrays : \A u \in 1..Len(unmatchedArrays[a]) :
                unmatchedArrays[a][u].by # i
           /\ \E pl \in logPlacesOf(i) :
                /\ logArrays[pl[1]][pl[2]].level = "ERROR"
                /\ logArrays[pl[1]][pl[2]].message = outcome[i].error
                /\ \A other \in logPlacesOf(i) :
                     /\ logArrays[other[1]][other[2]].level = "ERROR" => other = pl
                     /\ other[1] = pl[1] => other[2] <= pl[2]

\* One invocation ended without a table, and one with a table and no row.
C15_Witness ==
  \E i, j \in Runs :
    /\ resumed(i) /\ outcome[i].error = "No financial tables detected in the file"
    /\ rowsOf(i) = <<>>
    /\ resumed(j) /\ outcome[j].error = "No data found in the worksheet"
    /\ detected[j].tables # <<>>

\* C16: the alternatives a classification call returns are candidates it
\* collected, none of them equals the classification it returns, they are
\* in non-increasing order of confidence and there are at most 3.
C16_AlternativesWithoutBest ==
  \A i \in Runs : \A k \in 1..Len(calls[i]) :
    LET r == calls[i][k].result
    IN /\ \A a \in 1..Len(r.alternatives) :
            /\ r.alternatives[a] # r.classification
            /\ \E c \in 1..Len(r.candidates) : r.candidates[c] = r.alternatives[a]
       /\ \A a, b \in 1..Len(r.alternatives) :
            a < b => r.alternatives[a].confidence >= r.alternatives[b].confidence
       /\ Len(r.alternatives) <= 3

\* Row k of invocation i was registered as unmatched, and the entry is in
\* the unmatchedEntries of the result returned to i.
listedUnmatched(i, k) ==
  /\ calls[i][k].result.unmatched # <<>>
  /\ \E u \in 1..Len(unmatchedOf(i)) : unmatchedOf(i)[u] = calls[i][k].result.unmatched[1]

\* The combinations <<unmatched, uncertain>> met among the rows of the
\* inputs, each input processed by itself.
rowCombinations ==
  UNION { LET r == run(in, <<>>, 1)
          IN IF r.error # "" THEN {}
             ELSE { << r.calls[k].result.unmatched # <<>>,
                       \E u \in 1..Len(r.result.uncertainClassifications) :
                         r.result.uncertainClassifications[u].entry = r.result.entries[k] >> :
                    k \in 1..Len(r.calls) } :
          in \in Inputs }

\* C17 as stated: each of the four combinations of unmatched and uncertain
\* occurs for some classified row.
C17_FourCombinations == rowCombinations = BOOLEAN \X BOOLEAN

\* C17, amended: a row listed as unmatched in a returned result is listed as
\* uncertain in it as well (the fallback classification has confidence 0.3,
\* below 0.8); the other three combinations occur.
C17_UnmatchedAreUncertain ==
  \A i \in Runs :
    pc[i] = "done" =>
      \A k \in 1..Len(calls[i]) :
        /\ calls[i][k].result.unmatched # <<>> => listedUnmatched(i, k)
        /\ listedUnmatched(i, k) => listedUncertain(i, k)

\* Rows of returned results listed in neither list, as uncertain only, and
\* in both.
C17_Witness ==
  /\ \E i \in Runs : pc[i] = "done" /\ \E k \in 1..Len(calls[i]) :
       ~listedUnmatched(i, k) /\ ~listedUncertain(i, k)
  /\ \E i \in Runs : pc[i] = "done" /\ \E k \in 1..Len(calls[i]) :
       ~listedUnmatched(i, k) /\ listedUncertain(i, k)
  /\ \E i \in Runs : pc[i] = "done" /\ \E k \in 1..Len(calls[i]) :
       listedUnmatched(i, k) /\ listedUncertain(i, k)

\* C18: every FinancialEntry of a returned result has a debit and a credit
\* that are not negative, whatever the cells of the rows hold.
C18_AmountsNotNegative ==
  \A i \in Runs :
    pc[i] = "done" =>
      \A e \in 1..Len(outcome[i].result.entries) :
        /\ outcome[i].result.entries[e].debit >= 0
        /\ outcome[i].result.entries[e].credit >= 0

\* Two names share a word (lower-cased, split at spaces).
shareWord(a, b) ==
  \E w \in 1..Len(wordsOf[a]) : arrIncludes(wordsOf[b], wordsOf[a][w])

\* C19: after every classification call, a call resolved by an exact
\* standard-code match included, run memory holds under the row's code a
\* record with the row's name and the classification just returned, and at
\* most one record per code; a later row of the run that shares a word with
\* that name and goes through the strategies collects a run-memory
\* candidate.
C19_MemoryAfterEveryCall ==
  \A i \in Runs : \A k \in 1..Len(calls[i]) :
    LET call == calls[i][k]
        memory == call.result.memory
    IN /\ \E m \in 1..Len(memory) :
            /\ memory[m].accountCode = call.accountCode
            /\ memory[m].accountName = call.accountName
            /\ memory[m].classification = call.result.classification
       /\ \A m, n \in 1..Len(memory) :
            memory[m].accountCode = memory[n].accountCode => m = n
       /\ \A later \in (k + 1)..Len(calls[i]) :
            (/\ calls[i][later].accountCode \notin standardCodes
             /\ shareWord(call.accountName, calls[i][later].accountName))
              => \E c \in 1..Len(calls[i][later].result.candidates) :
                   startsWith(calls[i][later].result.candidates[c].reasoning,
                              "Similar to previously classified entry: ")

\* Row n of invocation i (1-based) was skipped as a header row.
skippedAsHeader(i, n) ==
  \E pl \in logPlacesOf(i) :
    logArrays[pl[1]][pl[2]].message
      = "Skipping header row at index " \o natToString(n - 1)

\* A value of the row contains one of the nine structural keywords.
structuralKeyword(row) ==
  \E key \in DOMAIN row : \E w \in 1..Len(headerKeywords) :
    occursIn(toLowerCase(stringOf(row[key])), headerKeywords[w])

\* The row carries a debit or a credit amount that is not zero.
amountCarried(row) ==
  \E key \in {"Debit", "Credit"} :
    toDecimal(field(row, key)).ok /\ toDecimal(field(row, key)).value # 0

\* C20: a row is skipped as a header row only when it holds a structural
\* keyword and carries no amount: a row with a debit or credit that is not
\* zero is never skipped as a header row.
C20_HeaderOnlyWithoutAmount ==
  \A i \in Runs :
    (resumed(i) /\ input[i].labels.defined) =>
      \A n \in 1..Len(rowsOf(i)) :
        skippedAsHeader(i, n)
          => structuralKeyword(rowsOf(i)[n]) /\ ~amountCarried(rowsOf(i)[n])

---------------------------------------------------------------------------
(* Properties of the row loop, of the candidates and of the tables.        *)

\* The places of the log entries of invocation i whose message starts with
\* `prefix`.
logged(i, prefix) ==
  {pl \in logPlacesOf(i) : startsWith(logArrays[pl[1]][pl[2]].message, prefix)}

\* The branch the row loop is to take for a row, by the precedence EMPTY,
\* HEADER, TOTAL, DATA.
branchOf(row) ==
  IF isEmptyRow(row) THEN "EMPTY"
  ELSE IF isHeaderRow(row) THEN "HEADER"
  ELSE IF isTotalRow(row) THEN "TOTAL"
  ELSE "DATA"

\* The rows of invocation i (1-based) that are to take branch b.
rowsTaking(i, b) == {n \in 1..Len(rowsOf(i)) : branchOf(rowsOf(i)[n]) = b}

\* C21: a run that passes the fatal checks returns a result, having taken
\* exactly one branch for every row: the number of rows is the number of its
\* empty-skip log entries plus its header-skip log entries plus
\* |totalsSummary| plus |entries|; the rows skipped, extracted and entered
\* are the rows of the branches EMPTY, HEADER, TOTAL and DATA; a TOTAL row
\* is never classified; the entries are in row order with strictly
\* increasing rowIndex.
C21_EveryRowOneBranch ==
  \A i \in Runs :
    (resumed(i) /\ input[i].labels.defined /\ outcome[i].error \notin fatalMessages) =>
      LET r == outcome[i].result
      IN /\ pc[i] = "done"
         /\ Len(rowsOf(i))
              = Cardinality(logged(i, "Skipping empty row at index "))
                + Cardinality(logged(i, "Skipping header row at index "))
                + Len(r.totalsSummary) + Len(r.entries)
         /\ Cardinality(logged(i, "Skipping empty row at index "))
              = Cardinality(rowsTaking(i, "EMPTY"))
         /\ Cardinality(logged(i, "Skipping header row at index "))
              = Cardinality(rowsTaking(i, "HEADER"))
         /\ Len(r.totalsSummary) = Cardinality(rowsTaking(i, "TOTAL"))
         /\ {r.entries[e].rowIndex + 1 : e \in 1..Len(r.entries)} = rowsTaking(i, "DATA")
         /\ Len(calls[i]) = Len(r.entries)
         /\ \A a, b \in 1..Len(r.entries) :
              a < b => r.entries[a].rowIndex < r.entries[b].rowIndex

\* The first candidate of the highest confidence among the candidates a call
\* collected.
firstOfHighest(candidates) ==
  candidates[CHOOSE c \in 1..Len(candidates) :
               /\ \A d \in 1..Len(candidates) :
                    candidates[d].confidence <= candidates[c].confidence
               /\ \A d \in 1..(c - 1) :
                    candidates[d].confidence < candidates[c].confidence]

\* C22: for a call that is not resolved by an exact standard-code match and
\* collects a candidate, the classification returned is the first candidate
\* of the highest confidence; no returned alternative and no classification
\* stored in the row's UnmatchedEntry has a confidence above that of the
\* classification returned.
C22_BestIsHighest ==
  \A i \in Runs : \A k \in 1..Len(calls[i]) :
    LET call == calls[i][k]
        r == call.result
    IN call.accountCode \notin standardCodes =>
         /\ r.candidates # <<>> => r.classification = firstOfHighest(r.candidates)
         /\ \A a \in 1..Len(r.alternatives) :
              r.alternatives[a].confidence <= r.classification.confidence
         /\ \A u \in 1..Len(r.unmatched) :
              \A c \in 1..Len(r.unmatched[u].possibleClassifications) :
                r.unmatched[u].possibleClassifications[c].confidence
                  <= r.classification.confidence

\* The standard codes, in table order, whose first two characters are the
\* first two characters of `code`.
samePrefixCodes(code) ==
  SelectSeq(codesOfMap,
            LAMBDA std : Len(code) >= 2 /\ SubSeq(code, 1, 2) = SubSeq(std, 1, 2))

\* C23: for a code that is no standard code and whose first two characters
\* are those of a standard code, the classification returned is that of the
\* first such standard code in table order, with confidence 0.8 and the
\* reasoning of the prefix match, whatever the other strategies collect.
C23_PrefixWins ==
  \A i \in Runs : \A k \in 1..Len(calls[i]) :
    LET call == calls[i][k]
        codes == samePrefixCodes(call.accountCode)
    IN (call.accountCode \notin standardCodes /\ codes # <<>>) =>
         call.result.classification
           = withConfidence(mapGet(codes[1]), Frac(8, 10),
               "Account code prefix matches standard classification " \o codes[1])

\* The row 2110 'Petty Cash' after the row 1001 'Petty Cash': the fuzzy match
\* names another standard code, run memory holds the name, and a keyword
\* list matches with confidence 0.8; the prefix match of 2100 is returned.
C23_Witness ==
  \E i \in Runs : \E k \in 1..Len(calls[i]) :
    LET call == calls[i][k]
        r == call.result
    IN /\ call.accountCode = "2110"
       /\ samePrefixCodes("2110") = <<"2100">>
       /\ similarCodeOf["2110"] \notin {"", "2100"}
       /\ r.memoryFrom # 0
       /\ \E c \in 1..Len(r.candidates) :
            /\ r.candidates[c].confidence = Frac(8, 10)
            /\ startsWith(r.candidates[c].reasoning, "Matched keywords: ")
       /\ \E c \in 1..Len(r.candidates) :
            /\ r.candidates[c].confidence = Frac(7, 10)
            /\ startsWith(r.candidates[c].reasoning, "Similar to account code ")
       /\ r.classification.tertiary = "Short-term Loans"
       /\ r.classification.confidence = Frac(8, 10)

\* The keyword lists of the taxonomy as the specification reads it, each
\* with its category path: a list under EQUITY has a primary and a secondary
\* only (tertiary "").
taxonomyLists ==
  { [primary |-> HIERARCHICAL[l].primary, secondary |-> HIERARCHICAL[l].secondary,
     tertiary |-> HIERARCHICAL[l].tertiary, keywords |-> HIERARCHICAL[l].keywords] :
      l \in {m \in 1..Len(HIERARCHICAL) : HIERARCHICAL[m].isArray} }
  \cup
  { LET strings == SelectSeq(HIERARCHICAL,
                     LAMBDA leaf : /\ ~leaf.isArray
                                   /\ leaf.primary = HIERARCHICAL[l].primary
                                   /\ leaf.secondary = HIERARCHICAL[l].secondary)
    IN [primary |-> HIERARCHICAL[l].primary, secondary |-> HIERARCHICAL[l].secondary,
        tertiary |-> "", keywords |-> [w \in 1..Len(strings) |-> strings[w].value]] :
      l \in {m \in 1..Len(HIERARCHICAL) : ~HIERARCHICAL[m].isArray} }

\* The keywords of a list that occur in the lower-cased name.
matchedOf(list, name) ==
  SelectSeq(list.keywords, LAMBDA keyword : occursIn(toLowerCase(name), keyword))

\* The candidates of a call that the keyword strategy produced, in the order
\* they were collected.
keywordCandidates(r) ==
  SelectSeq(r.candidates, LAMBDA c : startsWith(c.reasoning, "Matched keywords: "))

\* C24: for a call that is not resolved by an exact standard-code match and
\* every keyword list of the taxonomy, under Equity as under the other four
\* primaries, of which a keyword occurs in the lower-cased name, the call
\* collects a candidate with the category path of the list, confidence
\* min(0.8, matched/total + 0.3) and a reasoning that lists the matched
\* keywords; the keyword candidates are collected in descending order of
\* confidence.
C24_KeywordCandidates ==
  \A i \in Runs : \A k \in 1..Len(calls[i]) :
    LET call == calls[i][k]
        r == call.result
        found == keywordCandidates(r)
    IN call.accountCode \notin standardCodes =>
         /\ \A list \in taxonomyLists :
              LET matched == matchedOf(list, call.accountName)
              IN matched # <<>> =>
                   \E c \in 1..Len(found) :
                     /\ found[c].primary = list.primary
                     /\ found[c].secondary = list.secondary
                     /\ list.tertiary # "" => found[c].tertiary = list.tertiary
                     /\ found[c].confidence
                          = Min(Frac(8, 10),
                                Frac(Len(matched), Len(list.keywords)) + Frac(3, 10))
                     /\ found[c].reasoning = "Matched keywords: " \o join(matched, ", ")
         /\ \A a, b \in 1..Len(found) :
              a < b => found[a].confidence >= found[b].confidence

\* Invocation i was returned the tables of the strict pass.
strictReturned(i) ==
  resumed(i) /\ input[i].labels.defined /\ ~lenientCalled(i)

\* The rows of the worksheet that the range of a table covers: its header
\* row and the rowCount rows after it.
rangeRows(table) == table.headerRow..(table.headerRow + table.rowCount)

\* C25: the tables the strict pass returns cover row ranges that do not
\* overlap, no returned table has its header row inside the range of
\* another, and the first returned table has the smallest header row.
C25_StrictTablesDisjoint ==
  \A i \in Runs :
    strictReturned(i) =>
      LET tables == detected[i].tables
      IN /\ \A a, b \in 1..Len(tables) :
              a # b => /\ rangeRows(tables[a]) \cap rangeRows(tables[b]) = {}
                       /\ tables[b].headerRow \notin rangeRows(tables[a])
         /\ \A b \in 1..Len(tables) : tables[1].headerRow <= tables[b].headerRow

\* The header tokens of a table, as a set.
tokens(table) == {table.headers[h] : h \in 1..Len(table.headers)}

\* The number of keywords of the list of the table's type that occur in one
\* of its headers.
keywordsMatched(table) ==
  Cardinality({k \in 1..Len(KeywordsOfType(table.type)) :
                 \E h \in tokens(table) : occursIn(h, KeywordsOfType(table.type)[k])})

\* The confidence of C26 for a table, `confirmed` telling whether the hints
\* confirmed the three required columns; a type without a keyword list has
\* no keyword share.
statedConfidence(table, confirmed) ==
  Min(Frac(1, 1),
      (IF {"debit", "credit"} \subseteq tokens(table) THEN Frac(4, 10) ELSE 0)
        + (IF {"account", "description"} \cap tokens(table) # {} THEN Frac(3, 10) ELSE 0)
        + (IF KeywordsOfType(table.type) = <<>> THEN 0
           ELSE Frac(3 * keywordsMatched(table), 10 * Len(KeywordsOfType(table.type))))
        + (IF confirmed THEN Frac(2, 10) ELSE 0))

\* C26: every table the strict pass returns, of type UNKNOWN as of any other
\* type, has a confidence that is a number in [0,1], the one the statement
\* computes from its headers, its type and the hints.
C26_TableConfidence ==
  \A i \in Runs :
    strictReturned(i) =>
      \A t \in 1..Len(detected[i].tables) :
        /\ ~IsNaN(detected[i].tables[t].confidence)
        /\ inRange(detected[i].tables[t].confidence)
        /\ detected[i].tables[t].confidence
             = statedConfidence(detected[i].tables[t],
                                hasRequiredLabels(input[i].labels.list))

\* The header tokens of a table in one line.
headerLine(table) == join(table.headers, " ")

\* A keyword of the list appears in the headers of the table.
appears(table, keywords) ==
  \E k \in 1..Len(keywords) : occursIn(headerLine(table), keywords[k])

\* The rules of C27, in their order.
trialBalanceRule(table) ==
  appears(table, TRIAL_BALANCE) \/ {"debit", "credit"} \subseteq tokens(table)

balanceSheetRule(table) ==
  appears(table, BALANCE_SHEET) \/ {"assets", "liabilities"} \subseteq tokens(table)

incomeStatementRule(table) ==
  appears(table, INCOME_STATEMENT) \/ {"revenue", "expenses"} \subseteq tokens(table)

\* The number of headers of a table that hold a keyword of one of the three
\* lists.
keywordHits(table) ==
  Cardinality({h \in 1..Len(table.headers) :
     \E list \in {TRIAL_BALANCE, BALANCE_SHEET, INCOME_STATEMENT} :
       \E k \in 1..Len(list) : occursIn(table.headers[h], list[k])})

\* C27: the type of a table of the strict pass is that of the first rule its
\* headers satisfy, in the order TRIAL_BALANCE, BALANCE_SHEET,
\* INCOME_STATEMENT, and UNKNOWN when they satisfy none; a table whose
\* headers hold 2 keyword hits or more is not UNKNOWN.
C27_TypeByFirstRule ==
  \A i \in Runs :
    strictReturned(i) =>
      \A t \in 1..Len(detected[i].tables) :
        LET table == detected[i].tables[t]
        IN /\ table.type
                = (IF trialBalanceRule(table) THEN "TRIAL_BALANCE"
                   ELSE IF balanceSheetRule(table) THEN "BALANCE_SHEET"
                   ELSE IF incomeStatementRule(table) THEN "INCOME_STATEMENT"
                   ELSE "UNKNOWN")
           /\ keywordHits(table) >= MIN_FINANCIAL_KEYWORDS => table.type # "UNKNOWN"

\* Without hints: tables of the three types accepted for 2 keyword hits, one
\* of them a trial balance whose headers satisfy the rule of a balance sheet
\* as well.  With hints: a balance sheet by 'assets' and 'liabilities', a
\* trial balance by 'debit' and 'credit', and a table of type UNKNOWN.
C27_Witness ==
  \E i, j \in Runs :
    /\ strictReturned(i) /\ ~hasRequiredLabels(input[i].labels.list)
    /\ \A type \in {"TRIAL_BALANCE", "BALANCE_SHEET", "INCOME_STATEMENT"} :
         \E t \in 1..Len(detected[i].tables) :
           /\ detected[i].tables[t].type = type
           /\ keywordHits(detected[i].tables[t]) >= MIN_FINANCIAL_KEYWORDS
    /\ \E t \in 1..Len(detected[i].tables) :
         /\ detected[i].tables[t].type = "TRIAL_BALANCE"
         /\ balanceSheetRule(detected[i].tables[t])
    /\ strictReturned(j) /\ hasRequiredLabels(input[j].labels.list)
    /\ \E t \in 1..Len(detected[j].tables) :
         /\ detected[j].tables[t].type = "BALANCE_SHEET"
         /\ ~appears(detected[j].tables[t], BALANCE_SHEET)
    /\ \E t \in 1..Len(detected[j].tables) :
         /\ detected[j].tables[t].type = "TRIAL_BALANCE"
         /\ {"debit", "credit"} \subseteq tokens(detected[j].tables[t])
    /\ \E t \in 1..Len(detected[j].tables) :
         /\ detected[j].tables[t].type = "UNKNOWN"
         /\ keywordHits(detected[j].tables[t]) = 0

\* The category of C28 for the name of a total row.
statedCategory(name) ==
  LET nameLower == toLowerCase(name)
      parts == << <<"asset", "Assets">>, <<"liabilit", "Liabilities">>,
                  <<"equity", "Equity">>, <<"revenue", "Revenue">>,
                  <<"expense", "Expenses">> >>
      matching == {p \in 1..Len(parts) : occursIn(nameLower, parts[p][1])}
  IN IF matching = {} THEN "Other"
     ELSE parts[CHOOSE p \in matching : \A q \in matching : p <= q][2]

statedCategoryOf == [t \in Texts |-> statedCategory(t)]

\* The TotalSummary of C28 for a total row.
statedSummary(row) ==
  LET debit == toDecimal(field(row, "Debit")).value
      credit == toDecimal(field(row, "Credit")).value
  IN [name |-> nameText(row),
      amount |-> IF debit > credit THEN debit ELSE credit,
      type |-> IF debit > credit THEN "DEBIT" ELSE "CREDIT",
      category |-> statedCategoryOf[nameText(row)]]

\* C28: the summaries of a returned result are the summaries of its total
\* rows, each of type DEBIT with the debit as amount when the debit is
\* strictly greater than the credit, and of type CREDIT with the credit as
\* amount otherwise, with the category of the first part its name contains.
C28_TotalSummaryOfRow ==
  \A i \in Runs :
    pc[i] = "done" =>
      LET raw == rowsOf(i)
          totals == outcome[i].result.totalsSummary
          totalRows == rowsTaking(i, "TOTAL")
      IN /\ Len(totals) = Cardinality(totalRows)
         /\ \A n \in totalRows :
              occurrences(totals, statedSummary(raw[n]))
                = Cardinality({m \in totalRows :
                                 statedSummary(raw[m]) = statedSummary(raw[n])})

\* A returned result with a summary of type DEBIT, one of type CREDIT for a
\* credit above the debit, one for equal amounts, one for a row without an
\* amount, and the categories Assets, Liabilities, Expenses and Other.
C28_Witness ==
  \E i \in Runs :
    /\ pc[i] = "done"
    /\ LET raw == rowsOf(i)
           totals == outcome[i].result.totalsSummary
           debit(n) == toDecimal(field(raw[n], "Debit")).value
           credit(n) == toDecimal(field(raw[n], "Credit")).value
           emitted(n) == \E s \in 1..Len(totals) : totals[s] = statedSummary(raw[n])
       IN /\ \E n \in rowsTaking(i, "TOTAL") : debit(n) > credit(n) /\ emitted(n)
          /\ \E n \in rowsTaking(i, "TOTAL") : debit(n) < credit(n) /\ emitted(n)
          /\ \E n \in rowsTaking(i, "TOTAL") :
               debit(n) = credit(n) /\ debit(n) > 0 /\ emitted(n)
          /\ \E n \in rowsTaking(i, "TOTAL") :
               /\ field(raw[n], "Debit") = Nil /\ field(raw[n], "Credit") = Nil
               /\ emitted(n)
          /\ {totals[s].category : s \in 1..Len(totals)}
               = {"Assets", "Liabilities", "Expenses", "Other"}

\* The rows of the grid below its first row that hold a cell, in order: row
\* n of rawData is row sheetRows(grid)[n] of the worksheet.
sheetRows(grid) ==
  LET holding == {r \in 2..Len(grid) : \E c \in 1..Width(grid) : grid[r][c].t # "z"}
  IN [n \in 1..Cardinality(holding) |->
        CHOOSE r \in holding : Cardinality({q \in holding : q < r}) = n - 1]

sheetRowsOf == [g \in Grids |-> sheetRows(g)]

\* C29: every entry of a returned result has the name of the first detected
\* table as its sourceTable and comes from a row of the worksheet inside the
\* range of that table.
C29_EntriesOfPrimaryTable ==
  \A i \in Runs :
    pc[i] = "done" =>
      LET entries == outcome[i].result.entries
          primary == detected[i].tables[1]
      IN \A e \in 1..Len(entries) :
           /\ entries[e].sourceTable = primary.name
           /\ sheetRowsOf[input[i].grid][entries[e].rowIndex + 1] \in rangeRows(primary)

\* uc.possibleClassifications.slice(1) of exportToExcel: the classifications
\* the export writes as the alternatives of an uncertain record.
exportedAlternatives(uc) == Tail(uc.possibleClassifications)

\* C30: in a returned result every record of uncertainClassifications lists
\* between 1 and 4 classifications, the first being the classification of
\* its entry and the rest being the alternatives returned for that entry's
\* row, in non-increasing order of confidence.
C30_PossibleClassifications ==
  \A i \in Runs :
    pc[i] = "done" =>
      LET r == outcome[i].result
      IN \A u \in 1..Len(r.uncertainClassifications) :
           LET uc == r.uncertainClassifications[u]
               listed == uc.possibleClassifications
           IN /\ 1 <= Len(listed) /\ Len(listed) <= 4
              /\ listed[1] = uc.entry.classification
              /\ \E k \in 1..Len(r.entries) :
                   /\ r.entries[k] = uc.entry
                   /\ exportedAlternatives(uc) = calls[i][k].result.alternatives
              /\ \A a, b \in 2..Len(listed) :
                   a < b => listed[a].confidence >= listed[b].confidence

\* A returned result with a record of one classification (the fallback of a
\* row without a candidate) and a record of four for a row that collected
\* more than three candidates, of which an alternative of lower confidence
\* was collected before one of higher confidence.
C30_Witness ==
  \E i \in Runs :
    /\ pc[i] = "done"
    /\ LET r == outcome[i].result
       IN /\ \E u \in 1..Len(r.uncertainClassifications) :
               Len(r.uncertainClassifications[u].possibleClassifications) = 1
          /\ \E k \in 1..Len(r.entries) :
               /\ Len(calls[i][k].result.candidates) > 3
               /\ \E c, d \in 1..Len(calls[i][k].result.candidates) :
                    /\ c < d
                    /\ calls[i][k].result.candidates[c].confidence
                         < calls[i][k].result.candidates[d].confidence
                    /\ \E a, b \in 1..3 :
                         /\ a < b
                         /\ calls[i][k].result.alternatives[a]
                              = calls[i][k].result.candidates[d]
                         /\ calls[i][k].result.alternatives[b]
                              = calls[i][k].result.candidates[c]
               /\ \E u \in 1..Len(r.uncertainClassifications) :
                    /\ r.uncertainClassifications[u].entry = r.entries[k]
                    /\ Len(r.uncertainClassifications[u].possibleClassifications) = 4

====
